---- MODULE Spec2Model ----
(***************************************************************************)
(* Model of AudioEngine (src/src/audio/audio_engine.py): the control calls *)
(* load_track / play / pause / stop / seek issued by one control thread,   *)
(* the playback worker threads started by play(), the audio callback of    *)
(* each worker's output stream, the tags read by load_track(), the          *)
(* visualization thread with its ring buffer and its queue, the volume,    *)
(* balance and equalizer settings applied to each chunk, the clock that    *)
(* throttles the position callback, position_lock, and the completion      *)
(* timer of the main window (src/src/ui/main_window.py).                   *)
(*                                                                         *)
(* Times (current_position, seek_position, duration) are the floats        *)
(* n / sample_rate of the source; the model stores the numerator n (a      *)
(* sample count) and performs the conversion int(t * sample_rate) of the   *)
(* source with the operator ToIndex, which truncates as IEEE-754 doubles   *)
(* do for a 44100 Hz track.  Gains (volume, balance, spectrum values) are  *)
(* fixed-point numbers in units of 1 / One.                                *)
(***************************************************************************)
EXTENDS Integers, Sequences, FiniteSets, TLC

\* Frames delivered per callback invocation (blocksize of the output stream,
\* scaled down from chunk_size).
Frames == 15

\* Number of control calls (load_track, play, pause, stop, seek) in a run.
MaxCalls == 4

\* Number of playback worker threads that may be alive at the same time.
MaxWorkers == 2

\* Capacity of the ring buffer of recent samples (maxlen of audio_buffer,
\* scaled down with Frames: a chunk is longer than the buffer).
BufferMaxLen == 4

\* Number of frames the visualization thread produces in a run.
MaxVisFrames == 3

\* Resolution of the gains: the float 1.0 is written One, 0.5 is One \div 2.
One == 2

\* The clock stops at MaxTime ticks.
MaxTime == 4

\* callback_interval = 0.1, in ticks: a tick is 50 ms.
CallbackInterval == 2

\* The time the device takes to play a chunk, in whole ticks: chunk_size =
\* 4096 frames are 93 ms at 44100 Hz and 85 ms at 48000 Hz, more than one
\* tick and less than callback_interval.
ChunkTicks == 1

\* Sample counts of the files the decoder can return: a track a little longer
\* than one chunk, a file that decodes to an empty array, and a track a
\* little longer than two chunks.
TrackSamples == <<Frames + 1, 0, 2 * Frames + 1>>

Tracks == 1 .. Len(TrackSamples)

\* audio_data.ndim / shape[0] of each file: librosa.load(mono=False) returns
\* a flat array for a mono file and one row per channel for a stereo file.
\* The long track is stereo.
TrackChannels == <<1, 1, 2>>

\* seek() arguments, in halves: -0.5, 0.5, 1.0 and 1.5.
SeekHalves == {-1, 1, 2, 3}

\* The tags load_track() looks up.
Fields == {"title", "artist", "album", "album_artist"}

\* What the tag library reports as audio_file.info: no info attribute, an
\* info without bitrate, an info whose bitrate is not a number, a constant
\* bitrate, a variable bitrate.
InfoKinds == {"noinfo", "nobitrate", "badbitrate", "cbr", "vbr"}

\* What MutagenFile(file_path) does: raise, return None, or return a file
\* object in which the tags of fields are readable, with or without
\* embedded art.
Tags ==
    [kind : {"file"}, fields : SUBSET Fields, art : BOOLEAN, info : InfoKinds]
    \cup {[kind |-> k, fields |-> {}, art |-> FALSE, info |-> "noinfo"] :
             k \in {"raises", "none"}}

\* MutagenFile(file_path) returns None.
NoTag == [kind |-> "none", fields |-> {}, art |-> FALSE, info |-> "noinfo"]

\* A file with every tag and a constant bitrate.
FullTag == [kind |-> "file", fields |-> Fields, art |-> FALSE, info |-> "cbr"]

\* len(magnitude) for the longest input: the bins of an rfft of
\* BufferMaxLen samples.
MaxBins == BufferMaxLen \div 2 + 1

\* Values of a bin of np.abs(fft_result) / (fft_size / 2): silence, half
\* scale, full scale, and a peak above full scale.
MagValues == {0, 1, One, 8 * One}

\* What np.fft.rfft can return as magnitudes; of a member, the first
\* fft_size \div 2 + 1 bins are those of the transform.
Magnitudes == [1 .. MaxBins -> MagValues]

\* The magnitudes of a silent signal.
Silence == [k \in 1 .. MaxBins |-> 0]

\* Arguments of set_volume(): below 0.0, 0.0, 0.5, 1.0 and above 1.0.
VolumeInputs == {-One, 0, One \div 2, One, 2 * One}

\* Arguments of set_balance(): below -1.0, -0.5, 0.0, 0.5 and above 1.0.
BalanceInputs == {-2 * One, -(One \div 2), 0, One \div 2, 2 * One}

\* The keys of default_bands in set_eq().
EqKeys ==
    {"preamp", "60hz", "170hz", "310hz", "600hz", "1khz", "3khz", "6khz",
     "12khz", "14khz", "16khz"}

\* Arguments of set_eq(): dicts that give one gain, 0 dB or 6 dB, to no key,
\* to the preamp, to a band and to a key that is not a band, or to every
\* key of default_bands.
EqInputs ==
    {[k \in keys |-> gain] :
        keys \in {{}, {"preamp"}, {"60hz", "32hz"}, EqKeys},
        gain \in {0, 6}}

Workers == 1 .. MaxWorkers

Min(a, b) == IF a < b THEN a ELSE b

Max(a, b) == IF a > b THEN a ELSE b

\* Sample counts n <= 64 for which int((n / 44100.0) * 44100) is n - 1 in
\* double precision (the product rounds to just below n).
Inexact == {15, 23, 30, 46, 53, 60}

\* int(t * self.sample_rate) for the time t = n / sample_rate.
ToIndex(n) == IF n \in Inexact THEN n - 1 ELSE n

\* len(audio_data) / audio_data.shape[-1]; 0 stands for audio_data = None.
NumSamples(a) == IF a = 0 THEN 0 ELSE TrackSamples[a]

\* 1 if self.audio_data.ndim == 1, else self.audio_data.shape[0]
Channels(a) == IF a = 0 THEN 0 ELSE TrackChannels[a]

\* int(position * self.duration * self.sample_rate) for position = h / 2 and
\* duration = total / sample_rate: the product duration * sample_rate is
\* just below total when total is Inexact, and int() truncates toward zero.
TargetSample(h, total) ==
    LET a == IF h < 0 THEN -h ELSE h
        m == a * total
        q == IF a \in {1, 2} /\ total \in Inexact /\ m % 2 = 0
             THEN (m \div 2) - 1
             ELSE m \div 2
    IN  IF h < 0 THEN -q ELSE q

\* Variant of TargetTime: seek() forgets to clamp the target.
TargetTimeUnclamped(h, total) == TargetSample(h, total)

\* max(0.0, min(self.duration, target_sample / self.sample_rate))
TargetTime(h, total) == Max(0, Min(total, TargetSample(h, total)))

VARIABLES
    audio_data,        \* 0 (None) or the track held in the sample buffer
    duration,          \* seconds * sample_rate
    current_position,  \* seconds * sample_rate
    is_playing,
    is_paused,
    play_thread,       \* 0 (None) or the worker most recently started
    stop_event,
    seek_requested,
    seek_position,     \* seconds * sample_rate
    ctl,               \* the control thread: position in the current call
    calls,             \* number of control calls begun
    workers,           \* the playback worker threads and their callbacks
    hist,              \* history of the run, read by the properties only
    file_path,         \* 0 (None) or the track whose path was loaded last
    metadata,          \* the dict of tags; "absent" for a key it lacks
    bitrate,           \* kbps
    is_vbr,
    audio_buffer,      \* the ring buffer of recent mono samples, oldest first
    vis_mode,
    vis_stop_event,
    vis_data_queue,    \* the frames waiting for the UI, oldest first
    vis_worker,        \* the visualization thread
    env,               \* what the user has at hand: the files that can be
                       \* opened (tracks), what the tag library makes of
                       \* them (tags), the seek() arguments (seeks), the
                       \* magnitudes the FFT returns (mags) and whether
                       \* playback_callback raises (raises)
    volume,            \* 0 .. One
    balance,           \* -One .. One
    is_eq_on,
    eq_bands,          \* the dict of gains in dB, keyed by band name
    playback_state,    \* the dict get_playback_state() returned last, as
                       \* its caller holds it
    now,               \* time.time(), in ticks
    callback_log,      \* the last invocation of playback_callback: when,
                       \* with which arguments, and whether it raised;
                       \* seq alternates from one invocation to the next
    position_lock      \* the thread that holds self.position_lock:
                       \* Nobody, ControlThread, or w for the thread that
                       \* runs the callback of worker w's stream

\* Besides the state of the program, ctl carries six fields that only the
\* properties read: origin (the engine state when play() was called), held
\* (current_position at that moment), before (what the engine held when
\* load_track() was called), tag (what the tag library made of the file
\* that load_track() loaded), arg (the argument of a call, as its caller
\* holds it, or what the call returned) and by (who made the call: the
\* user, or the completion timer).  A worker carries four: first (it has
\* not rendered a chunk yet), sought (the seek() argument whose request
\* the callback in progress adopted, 0 if none), error (its output stream
\* raised) and callback_time (when the device invoked the callback last;
\* current_time of the source, as no tick passes during a callback).
\* hist holds the
\* worker that was playing when seek() was last called (seek_for), the
\* argument and target of that call (last_h, last_target), and whether a
\* pending request was replaced by a different one and then adopted (lww).

vars == <<audio_data, duration, current_position, is_playing, is_paused,
          play_thread, stop_event, seek_requested, seek_position, ctl,
          calls, workers, hist, file_path, metadata, bitrate, is_vbr,
          audio_buffer, vis_mode, vis_stop_event, vis_data_queue, vis_worker,
          env, volume, balance, is_eq_on, eq_bands, playback_state, now,
          callback_log, position_lock>>

engine == <<audio_data, duration, current_position, is_playing, is_paused,
            play_thread, stop_event, seek_requested, seek_position>>

\* What load_track() keeps about the file besides its samples.
track_info == <<file_path, metadata, bitrate, is_vbr>>

\* The visualization thread, its mode and its queue.
vis_state == <<vis_mode, vis_stop_event, vis_data_queue, vis_worker>>

\* The settings the callback applies to a chunk.
mix == <<volume, balance, is_eq_on, eq_bands>>

\* The clock and what the position callback has been told.
timing == <<now, callback_log>>

\* threading.Lock(): not held.
Nobody == 0

\* The thread that makes the control calls, as a holder of position_lock.
ControlThread == -1

\* The state that the control calls of playback do not change.
aux == <<env, track_info, audio_buffer, vis_state, mix, playback_state,
         timing, position_lock>>

\* A visualization thread that has not been started or has returned.
IdleVisWorker == [pc |-> "done", samples |-> <<>>, produced |-> 0]

\* self.metadata = {}: no key is present.
NoMetadata ==
    [title |-> "absent", artist |-> "absent", album |-> "absent",
     album_artist |-> "absent", album_art |-> "absent", duration |-> -1]

\* What a caller can observe of the loaded track and of the playback state.
Observable ==
    [audio_data |-> audio_data, duration |-> duration,
     file_path |-> file_path, position |-> current_position,
     metadata |-> metadata,
     state |-> IF is_paused THEN "paused"
               ELSE IF is_playing THEN "playing" ELSE "stopped"]

NoBefore ==
    [audio_data |-> 0, duration |-> 0, file_path |-> 0, position |-> 0,
     metadata |-> NoMetadata, state |-> "stopped"]

\* self.eq_bands = {}: no band is present.
NoBands == << >>

\* The callback holds no chunk.
NoChunk == [dtype |-> "none", gain |-> << >>, filters |-> {}]

\* No dict has been returned by get_playback_state() yet.
NoState ==
    [is_playing |-> FALSE, is_paused |-> FALSE, position |-> -1,
     duration |-> -1, volume |-> -1]

\* playback_callback has not been invoked yet.
NoLog ==
    [seq |-> 0, time |-> -1, position |-> 0, duration |-> 0,
     raised |-> FALSE]

\* A thread that has not been started or has returned.
IdleWorker ==
    [pc |-> "done", start_idx |-> 0, total_samples |-> 0,
     cb |-> "idle", end_idx |-> 0, new_position |-> 0, first |-> FALSE,
     sought |-> 0, chunk |-> NoChunk, error |-> FALSE,
     last_callback_time |-> 0, callback_time |-> 0, pos_copy |-> 0]

NoHistory == [seek_for |-> 0, last_h |-> 0, last_target |-> 0, lww |-> "none"]

Alive(w) == workers[w].pc # "done"

\* The output stream of worker w is open: its callback can be invoked.
StreamOpen(w) == workers[w].pc = "loop"

\* threading.Thread.is_alive() of self.play_thread
PlayThreadAlive == play_thread # 0 /\ Alive(play_thread)

FreeWorkers == {w \in Workers : ~Alive(w)}

\* The engine as __init__ leaves it.
Constructed ==
    /\ audio_data = 0
    /\ duration = 0
    /\ current_position = 0
    /\ is_playing = FALSE
    /\ is_paused = FALSE
    /\ play_thread = 0
    /\ stop_event = FALSE
    /\ seek_requested = FALSE
    /\ seek_position = 0
    /\ ctl = [pc |-> "idle", op |-> "none", was_paused |-> FALSE,
              origin |-> "stopped", held |-> 0, before |-> NoBefore,
              tag |-> NoTag, arg |-> 0, by |-> "user"]
    /\ calls = 0
    /\ workers = [w \in Workers |-> IdleWorker]
    /\ hist = NoHistory
    /\ file_path = 0
    /\ metadata = NoMetadata
    /\ bitrate = 0
    /\ is_vbr = FALSE
    /\ audio_buffer = <<>>
    /\ vis_mode = "SPECTRUM"
    /\ vis_stop_event = FALSE
    /\ vis_data_queue = <<>>
    /\ vis_worker = IdleVisWorker
    /\ volume = One
    /\ balance = 0
    /\ is_eq_on = FALSE
    /\ eq_bands = NoBands
    /\ playback_state = NoState
    /\ now = 0
    /\ callback_log = NoLog
    /\ position_lock = Nobody

\* A new engine; the user has one fully tagged track and seeks to 0.5 or 1.5.
Init ==
    /\ Constructed
    /\ env = [tracks |-> {1}, tags |-> {FullTag}, seeks |-> {1, 3},
              mags |-> {Silence}, raises |-> {FALSE}]

(***************************************************************************)
(* Control thread.  One call is in progress at a time; ctl.pc is the       *)
(* statement the call executes next, ctl.op the call most recently begun.  *)
(***************************************************************************)
Goto(pc) == ctl' = [ctl EXCEPT !.pc = pc] /\ UNCHANGED calls

\* A call begins: ctl.op names it; the fields of the previous call are dead.
Call(op, pc) ==
    /\ calls < MaxCalls
    /\ calls' = calls + 1
    /\ ctl' = [pc |-> pc, op |-> op, was_paused |-> FALSE,
               origin |-> "stopped", held |-> 0, before |-> NoBefore,
               tag |-> NoTag, arg |-> 0, by |-> "user"]

\* A setter is called with arg, which its caller keeps.
CallWith(op, pc, arg) ==
    /\ calls < MaxCalls
    /\ calls' = calls + 1
    /\ ctl' = [pc |-> pc, op |-> op, was_paused |-> FALSE,
               origin |-> "stopped", held |-> 0, before |-> NoBefore,
               tag |-> NoTag, arg |-> arg, by |-> "user"]

\* The engine state as an observer sees it.
EngineState ==
    IF is_paused THEN "paused" ELSE IF is_playing THEN "playing" ELSE "stopped"

\* Where _ensure_stopped() returns to.
AfterEnsureStopped == IF ctl.op = "load" THEN "ld_load" ELSE "p_reset"

\* _ensure_stopped(): if self.is_playing or self.is_paused:
\*     self.is_playing = False; self.is_paused = False
\* (one of the two flags is already false, and no other thread sets a flag)
EnsureStoppedFlags(return_pc) ==
    IF is_playing \/ is_paused
    THEN /\ is_playing' = FALSE
         /\ is_paused' = FALSE
         /\ Goto("es_event")
    ELSE /\ Goto(return_pc)
         /\ UNCHANGED <<is_playing, is_paused>>

\* load_track(): entry; _ensure_stopped() tests and clears the flags
LoadBegin ==
    /\ ctl.pc = "idle"
    /\ calls < MaxCalls
    /\ calls' = calls + 1
    /\ ctl' = [pc |-> IF is_playing \/ is_paused THEN "es_event"
                      ELSE "ld_load",
               op |-> "load", was_paused |-> FALSE, origin |-> "stopped",
               held |-> 0, before |-> Observable, tag |-> NoTag, arg |-> 0,
               by |-> "user"]
    /\ IF is_playing \/ is_paused
       THEN /\ is_playing' = FALSE
            /\ is_paused' = FALSE
       ELSE UNCHANGED <<is_playing, is_paused>>
    /\ UNCHANGED <<audio_data, duration, current_position, play_thread,
                   stop_event, seek_requested, seek_position, workers, hist>>
    /\ UNCHANGED aux

\* _ensure_stopped() called by play(): tests and clears the flags
EnsureStoppedCheck ==
    /\ ctl.pc = "es_check"
    /\ EnsureStoppedFlags(AfterEnsureStopped)
    /\ UNCHANGED <<audio_data, duration, current_position, play_thread,
                   stop_event, seek_requested, seek_position, workers, hist>>
    /\ UNCHANGED aux

\* _ensure_stopped(): self.stop_event.set()
EnsureStoppedSetEvent ==
    /\ ctl.pc = "es_event"
    /\ stop_event' = TRUE
    /\ Goto("es_join")
    /\ UNCHANGED <<audio_data, duration, current_position, is_playing,
                   is_paused, play_thread, seek_requested, seek_position,
                   workers, hist>>
    /\ UNCHANGED aux

\* _ensure_stopped(): the join returns because the thread has terminated, or
\* there is no live thread to join.
EnsureStoppedJoin ==
    /\ ctl.pc = "es_join"
    /\ ~PlayThreadAlive
    /\ Goto(AfterEnsureStopped)
    /\ UNCHANGED <<engine, workers, hist>>
    /\ UNCHANGED aux

\* _ensure_stopped(): join(timeout=2.0) returns with the thread still alive.
EnsureStoppedJoinTimeout ==
    /\ ctl.pc = "es_join"
    /\ PlayThreadAlive
    /\ Goto(AfterEnsureStopped)
    /\ UNCHANGED <<engine, workers, hist>>
    /\ UNCHANGED aux

\* load_track(): self.audio_data, self.sample_rate = librosa.load(...)
LoadDecode ==
    /\ ctl.pc = "ld_load"
    /\ \E t \in env.tracks : audio_data' = t
    /\ Goto("ld_pos")
    /\ UNCHANGED <<duration, current_position, is_playing, is_paused,
                   play_thread, stop_event, seek_requested, seek_position,
                   workers, hist>>
    /\ UNCHANGED aux

\* load_track(): librosa.load raises; except: return False
LoadDecodeFails ==
    /\ ctl.pc = "ld_load"
    /\ ctl' = [ctl EXCEPT !.pc = "idle", !.op = "load_failed",
                          !.before = NoBefore]
    /\ UNCHANGED calls
    /\ UNCHANGED <<engine, workers, hist>>
    /\ UNCHANGED aux

\* load_track(): self.current_position = 0.0; self.file_path = file_path
LoadResetPosition ==
    /\ ctl.pc = "ld_pos"
    /\ current_position' = 0
    /\ file_path' = audio_data
    /\ Goto("ld_dur")
    /\ UNCHANGED <<audio_data, duration, is_playing, is_paused, play_thread,
                   stop_event, seek_requested, seek_position, workers, hist>>
    /\ UNCHANGED <<env, metadata, bitrate, is_vbr, audio_buffer, vis_state,
                   mix, playback_state, timing, position_lock>>

\* load_track(): self.duration = librosa.get_duration(...)
LoadSetDuration ==
    /\ ctl.pc = "ld_dur"
    /\ duration' = NumSamples(audio_data)
    /\ Goto("ld_seek")
    /\ UNCHANGED <<audio_data, current_position, is_playing, is_paused,
                   play_thread, stop_event, seek_requested, seek_position,
                   workers, hist>>
    /\ UNCHANGED aux

\* safe_extract_metadata(audio_file, keys): the text of the first key that
\* is readable, "Unknown" if there is none.
SafeExtract(tag, field) ==
    IF field \in tag.fields THEN "text" ELSE "Unknown"

\* The dict of defaults that replaces self.metadata when the tag library
\* returns None or something raises.
DefaultMetadata ==
    [title |-> "Unknown", artist |-> "Unknown", album |-> "Unknown",
     album_artist |-> "Unknown", album_art |-> "None", duration |-> duration]

\* int(getattr(info, "bitrate", 0) / 1000) if hasattr(info, "bitrate") else 0
BitrateOf(info) ==
    IF info = "cbr" THEN 128 ELSE IF info = "vbr" THEN 192 ELSE 0

\* Variant of LoadMetadata: when the tag library returns None or something
\* raises, self.metadata is left as it is.
LoadMetadataNoDefaults(tag) ==
    LET has_info ==
            tag.kind = "file" /\ tag.info \in {"nobitrate", "cbr", "vbr"}
    IN  /\ metadata' =
               IF tag.kind = "file" /\ tag.info # "badbitrate"
               THEN [metadata EXCEPT
                        !.title = SafeExtract(tag, "title"),
                        !.artist = SafeExtract(tag, "artist"),
                        !.album = SafeExtract(tag, "album"),
                        !.album_artist = SafeExtract(tag, "album_artist"),
                        !.album_art = IF tag.art THEN "image" ELSE "None",
                        !.duration = duration]
               ELSE metadata
        /\ bitrate' = IF has_info THEN BitrateOf(tag.info) ELSE bitrate
        /\ is_vbr' = IF has_info THEN tag.info = "vbr" ELSE is_vbr

\* _load_metadata(file_path) when MutagenFile behaves as tag says.  A file
\* object has its tags stored in self.metadata key by key, then bitrate and
\* is_vbr set from its info; int() of a bitrate that is not a number raises.
\* When MutagenFile returns None, or anything raises, self.metadata becomes
\* the dict of defaults and bitrate and is_vbr are left as they are.
LoadMetadata(tag) ==
    LET has_info ==
            tag.kind = "file" /\ tag.info \in {"nobitrate", "cbr", "vbr"}
    IN  /\ metadata' =
               IF tag.kind = "file" /\ tag.info # "badbitrate"
               THEN [metadata EXCEPT
                        !.title = SafeExtract(tag, "title"),
                        !.artist = SafeExtract(tag, "artist"),
                        !.album = SafeExtract(tag, "album"),
                        !.album_artist = SafeExtract(tag, "album_artist"),
                        !.album_art = IF tag.art THEN "image" ELSE "None",
                        !.duration = duration]
               ELSE DefaultMetadata
        /\ bitrate' = IF has_info THEN BitrateOf(tag.info) ELSE bitrate
        /\ is_vbr' = IF has_info THEN tag.info = "vbr" ELSE is_vbr

\* load_track(): with self.position_lock: reset the seek request;
\* if len(self.audio_data) == 0: return False;
\* self._load_metadata(file_path); return True
LoadResetSeek ==
    /\ ctl.pc = "ld_seek"
    /\ seek_requested' = FALSE
    /\ seek_position' = 0
    /\ hist' = NoHistory
    /\ IF NumSamples(audio_data) = 0
       THEN /\ ctl' = [ctl EXCEPT !.pc = "idle", !.op = "load_failed",
                                  !.before = NoBefore]
            /\ UNCHANGED <<metadata, bitrate, is_vbr>>
       ELSE \E tag \in env.tags :
                /\ LoadMetadata(tag)
                /\ ctl' = [ctl EXCEPT
                              !.pc = IF ctl.by = "timer" THEN "tc_play"
                                     ELSE "idle",
                              !.before = NoBefore, !.tag = tag]
    /\ UNCHANGED <<audio_data, duration, current_position, is_playing,
                   is_paused, play_thread, stop_event, workers, calls,
                   file_path, env, audio_buffer, vis_state, mix,
                   playback_state, timing, position_lock>>

\* play(): if self.audio_data is None: return
PlayNoTrack ==
    /\ ctl.pc = "idle"
    /\ audio_data = 0
    /\ Call("play_noop", "idle")
    /\ UNCHANGED <<engine, workers, hist>>
    /\ UNCHANGED aux

\* play(): was_paused = self.is_paused; call of _ensure_stopped()
PlayBegin ==
    /\ ctl.pc = "idle"
    /\ audio_data # 0
    /\ FreeWorkers # {}
    /\ calls < MaxCalls
    /\ calls' = calls + 1
    /\ ctl' = [pc |-> "es_check", op |-> "play", was_paused |-> is_paused,
               origin |-> EngineState, held |-> current_position,
               before |-> NoBefore, tag |-> NoTag, arg |-> 0, by |-> "user"]
    /\ UNCHANGED <<engine, workers, hist>>
    /\ UNCHANGED aux

\* play(): if not was_paused and not self.is_playing:
\*             self.current_position = 0.0
PlayResetPosition ==
    /\ ctl.pc = "p_reset"
    /\ current_position' =
           IF ~ctl.was_paused /\ ~is_playing THEN 0 ELSE current_position
    /\ ctl' = [ctl EXCEPT !.pc = "p_playing", !.was_paused = FALSE]
    /\ UNCHANGED calls
    /\ UNCHANGED <<audio_data, duration, is_playing, is_paused, play_thread,
                   stop_event, seek_requested, seek_position, workers, hist>>
    /\ UNCHANGED aux

\* play(): self.is_playing = True; self.is_paused = False
\* (is_paused is false already: only pause() sets it)
PlaySetPlaying ==
    /\ ctl.pc = "p_playing"
    /\ is_playing' = TRUE
    /\ is_paused' = FALSE
    /\ Goto("p_start")
    /\ UNCHANGED <<audio_data, duration, current_position, play_thread,
                   stop_event, seek_requested, seek_position, workers, hist>>
    /\ UNCHANGED aux

\* play(): self.stop_event.clear();
\*         self.play_thread = threading.Thread(...); self.play_thread.start()
PlayStartThread ==
    /\ ctl.pc = "p_start"
    /\ stop_event' = FALSE
    /\ LET w == CHOOSE x \in FreeWorkers : \A y \in FreeWorkers : x <= y
       IN  /\ play_thread' = w
           /\ workers' = [workers EXCEPT ![w] =
                  [IdleWorker EXCEPT !.pc = "start", !.first = TRUE]]
    /\ Goto("idle")
    /\ UNCHANGED <<audio_data, duration, current_position, is_playing,
                   is_paused, seek_requested, seek_position, hist>>
    /\ UNCHANGED aux

\* Variant of PauseNotPlaying: pause() sets is_paused without testing
\* is_playing.
PauseUnguarded ==
    /\ ctl.pc = "idle"
    /\ ~is_playing
    /\ is_paused' = TRUE
    /\ Call("pause_noop", "idle")
    /\ UNCHANGED <<audio_data, duration, current_position, is_playing,
                   play_thread, stop_event, seek_requested, seek_position,
                   workers, hist>>
    /\ UNCHANGED aux

\* pause(): if self.is_playing is false, nothing happens
PauseNotPlaying ==
    /\ ctl.pc = "idle"
    /\ ~is_playing
    /\ Call("pause_noop", "idle")
    /\ UNCHANGED <<engine, workers, hist>>
    /\ UNCHANGED aux

\* pause(): if self.is_playing: self.is_paused = True
PauseSetPaused ==
    /\ ctl.pc = "idle"
    /\ is_playing
    /\ is_paused' = TRUE
    /\ Call("pause", "pa_playing")
    /\ UNCHANGED <<audio_data, duration, current_position, is_playing,
                   play_thread, stop_event, seek_requested, seek_position,
                   workers, hist>>
    /\ UNCHANGED aux

\* Variant of PauseClearPlaying: pause() forgets to clear is_playing.
PauseKeepsPlaying ==
    /\ ctl.pc = "pa_playing"
    /\ Goto("idle")
    /\ UNCHANGED <<engine, workers, hist>>
    /\ UNCHANGED aux

\* pause(): self.is_playing = False
PauseClearPlaying ==
    /\ ctl.pc = "pa_playing"
    /\ is_playing' = FALSE
    /\ Goto("idle")
    /\ UNCHANGED <<audio_data, duration, current_position, is_paused,
                   play_thread, stop_event, seek_requested, seek_position,
                   workers, hist>>
    /\ UNCHANGED aux

\* stop(): self.is_playing = False; self.is_paused = False
\* (one of the two flags is already false, and no other thread sets a flag)
StopClearFlags ==
    /\ ctl.pc = "idle"
    /\ is_playing' = FALSE
    /\ is_paused' = FALSE
    /\ Call("stop", "st_pos")
    /\ UNCHANGED <<audio_data, duration, current_position, play_thread,
                   stop_event, seek_requested, seek_position, workers, hist>>
    /\ UNCHANGED aux

\* stop(): self.current_position = 0.0
StopResetPosition ==
    /\ ctl.pc = "st_pos"
    /\ current_position' = 0
    /\ Goto("st_event")
    /\ UNCHANGED <<audio_data, duration, is_playing, is_paused, play_thread,
                   stop_event, seek_requested, seek_position, workers, hist>>
    /\ UNCHANGED aux

\* stop(): self.stop_event.set()
StopSetEvent ==
    /\ ctl.pc = "st_event"
    /\ stop_event' = TRUE
    /\ Goto("st_join")
    /\ UNCHANGED <<audio_data, duration, current_position, is_playing,
                   is_paused, play_thread, seek_requested, seek_position,
                   workers, hist>>
    /\ UNCHANGED aux

\* stop(): the join returns because the thread has terminated, or there is
\* no live thread to join.
StopJoin ==
    /\ ctl.pc = "st_join"
    /\ ~PlayThreadAlive
    /\ Goto("idle")
    /\ UNCHANGED <<engine, workers, hist>>
    /\ UNCHANGED aux

\* stop(): join(timeout=2.0) returns with the thread still alive.
StopJoinTimeout ==
    /\ ctl.pc = "st_join"
    /\ PlayThreadAlive
    /\ Goto("idle")
    /\ UNCHANGED <<engine, workers, hist>>
    /\ UNCHANGED aux

\* Variant of SeekNoTrack: the request is recorded although there is no
\* track.
SeekNoTrackPending ==
    /\ ctl.pc = "idle"
    /\ audio_data = 0
    /\ seek_requested' = TRUE
    /\ Call("seek_noop", "idle")
    /\ UNCHANGED <<audio_data, duration, current_position, is_playing,
                   is_paused, play_thread, stop_event, seek_position,
                   workers, hist>>
    /\ UNCHANGED aux

\* seek(): if self.audio_data is None, nothing happens
SeekNoTrack ==
    /\ ctl.pc = "idle"
    /\ audio_data = 0
    /\ Call("seek_noop", "idle")
    /\ UNCHANGED <<engine, workers, hist>>
    /\ UNCHANGED aux

\* Variant of Seek: a request that is still pending keeps its target (the
\* requests queue up behind the first instead of replacing it).
SeekKeepsFirst ==
    /\ ctl.pc = "idle"
    /\ audio_data # 0
    /\ \E h \in env.seeks :
         LET target_time == TargetTime(h, duration)
         IN  /\ current_position' = target_time
             /\ seek_position' =
                    IF seek_requested THEN seek_position ELSE target_time
             /\ seek_requested' = TRUE
             /\ hist' = [seek_for |-> IF is_playing /\ PlayThreadAlive
                                      THEN play_thread ELSE 0,
                         last_h |-> h,
                         last_target |-> target_time,
                         lww |-> IF seek_requested
                                    /\ seek_position # target_time
                                 THEN "replaced"
                                 ELSE IF seek_requested THEN hist.lww
                                 ELSE "none"]
    /\ Call("seek", "idle")
    /\ UNCHANGED <<audio_data, duration, is_playing, is_paused, play_thread,
                   stop_event, workers>>
    /\ UNCHANGED aux

\* seek(position): compute target_time, then under position_lock store it in
\* current_position and seek_position and raise seek_requested.
Seek ==
    /\ ctl.pc = "idle"
    /\ audio_data # 0
    /\ \E h \in env.seeks :
         LET target_time == TargetTime(h, duration)
         IN  /\ current_position' = target_time
             /\ seek_position' = target_time
             /\ seek_requested' = TRUE
             /\ hist' = [seek_for |-> IF is_playing /\ PlayThreadAlive
                                      THEN play_thread ELSE 0,
                         last_h |-> h,
                         last_target |-> target_time,
                         lww |-> IF seek_requested
                                    /\ seek_position # target_time
                                 THEN "replaced"
                                 ELSE IF seek_requested THEN hist.lww
                                 ELSE "none"]
    /\ Call("seek", "idle")
    /\ UNCHANGED <<audio_data, duration, is_playing, is_paused, play_thread,
                   stop_event, workers>>
    /\ UNCHANGED aux

(***************************************************************************)
(* The setters of the mix and the accessor of the playback state, called   *)
(* by the thread that makes the control calls.                             *)
(***************************************************************************)

\* Variant of SetVolume: the argument is stored as it is.
SetVolumeUnclamped ==
    /\ ctl.pc = "idle"
    /\ \E v \in VolumeInputs :
          /\ volume' = v
          /\ CallWith("set_volume", "idle", v)
    /\ UNCHANGED <<engine, workers, hist, env, track_info, audio_buffer,
                   vis_state, balance, is_eq_on, eq_bands, playback_state,
                   timing, position_lock>>

\* set_volume(volume): self.volume = max(0.0, min(1.0, volume))
SetVolume ==
    /\ ctl.pc = "idle"
    /\ \E v \in VolumeInputs :
          /\ volume' = Max(0, Min(One, v))
          /\ CallWith("set_volume", "idle", v)
    /\ UNCHANGED <<engine, workers, hist, env, track_info, audio_buffer,
                   vis_state, balance, is_eq_on, eq_bands, playback_state,
                   timing, position_lock>>

\* set_balance(balance): self.balance = max(-1.0, min(1.0, balance))
SetBalance ==
    /\ ctl.pc = "idle"
    /\ \E b \in BalanceInputs :
          /\ balance' = Max(-One, Min(One, b))
          /\ CallWith("set_balance", "idle", b)
    /\ UNCHANGED <<engine, workers, hist, env, track_info, audio_buffer,
                   vis_state, volume, is_eq_on, eq_bands, playback_state,
                   timing, position_lock>>

\* Variant of SetEq: a band the argument does not give keeps its gain.
SetEqPatch ==
    /\ ctl.pc = "idle"
    /\ \E bands \in EqInputs :
          /\ eq_bands' =
                 [k \in EqKeys |->
                     IF k \in DOMAIN bands THEN bands[k]
                     ELSE IF k \in DOMAIN eq_bands THEN eq_bands[k]
                     ELSE 0]
          /\ CallWith("set_eq", "idle", bands)
    /\ UNCHANGED <<engine, workers, hist, env, track_info, audio_buffer,
                   vis_state, volume, balance, is_eq_on, playback_state,
                   timing, position_lock>>

\* set_eq(bands): self.eq_bands becomes default_bands (every key at 0.0)
\* updated with the items of bands whose key is in default_bands; bands is
\* only read.  (The copy of bands stored first is replaced before set_eq
\* returns.)
SetEq ==
    /\ ctl.pc = "idle"
    /\ \E bands \in EqInputs :
          /\ eq_bands' =
                 [k \in EqKeys |-> IF k \in DOMAIN bands THEN bands[k] ELSE 0]
          /\ CallWith("set_eq", "idle", bands)
    /\ UNCHANGED <<engine, workers, hist, env, track_info, audio_buffer,
                   vis_state, volume, balance, is_eq_on, playback_state,
                   timing, position_lock>>

\* toggle_eq(enabled): self.is_eq_on = bool(enabled)
ToggleEq ==
    /\ ctl.pc = "idle"
    /\ \E enabled \in BOOLEAN :
          /\ is_eq_on' = enabled
          /\ CallWith("toggle_eq", "idle", enabled)
    /\ UNCHANGED <<engine, workers, hist, env, track_info, audio_buffer,
                   vis_state, volume, balance, eq_bands, playback_state,
                   timing, position_lock>>

\* Variant of GetPlaybackState: the dict returned before is returned again
\* when there is one.
GetPlaybackStateCached ==
    /\ ctl.pc = "idle"
    /\ playback_state' =
           IF playback_state # NoState THEN playback_state
           ELSE [is_playing |-> is_playing, is_paused |-> is_paused,
                 position |-> current_position, duration |-> duration,
                 volume |-> volume]
    /\ Call("get_playback_state", "idle")
    /\ UNCHANGED <<engine, workers, hist, env, track_info, audio_buffer,
                   vis_state, mix, timing, position_lock>>

\* get_playback_state(): with self.position_lock: return a new dict of
\* is_playing, is_paused, current_position, duration and volume.
GetPlaybackState ==
    /\ ctl.pc = "idle"
    /\ playback_state' =
           [is_playing |-> is_playing, is_paused |-> is_paused,
            position |-> current_position, duration |-> duration,
            volume |-> volume]
    /\ Call("get_playback_state", "idle")
    /\ UNCHANGED <<engine, workers, hist, env, track_info, audio_buffer,
                   vis_state, mix, timing, position_lock>>

\* The caller of get_playback_state() writes to the dict it was given.
CallerWritesState ==
    /\ ctl.pc = "idle"
    /\ playback_state # NoState
    /\ playback_state' = [playback_state EXCEPT !.is_playing = FALSE,
                                                !.position = 0,
                                                !.volume = 0]
    /\ playback_state' # playback_state
    /\ UNCHANGED <<engine, ctl, calls, workers, hist, env, track_info,
                   audio_buffer, vis_state, mix, timing, position_lock>>

(***************************************************************************)
(* The timer of the main window, on the thread that makes the control      *)
(* calls: every 500 ms check_track_completion() looks at the playback      *)
(* state and, when the track has finished, plays another track of the      *)
(* playlist or, when there is none, calls stop().                          *)
(***************************************************************************)

\* check_track_completion(): state = self.audio_engine.get_playback_state();
\* if state["position"] >= state["duration"] and state["duration"] > 0
\*    and self.audio_engine.has_track_loaded() and not state["is_playing"]:
\* go on with play_next_track() or play_track_at_index(0) when the playlist
\* has another track to play, with the else branch when it has not.
CheckTrackCompletion ==
    /\ ctl.pc = "idle"
    /\ calls < MaxCalls
    /\ calls' = calls + 1
    /\ playback_state' =
           [is_playing |-> is_playing, is_paused |-> is_paused,
            position |-> current_position, duration |-> duration,
            volume |-> volume]
    /\ LET finished == /\ current_position >= duration
                       /\ duration > 0
                       /\ file_path # 0
                       /\ ~is_playing
       IN  \E more \in BOOLEAN :
              ctl' = [pc |-> IF ~finished THEN "idle"
                             ELSE IF more THEN "tc_next" ELSE "tc_stop",
                      op |-> "check_track_completion", was_paused |-> FALSE,
                      origin |-> "stopped", held |-> 0, before |-> NoBefore,
                      tag |-> NoTag, arg |-> finished, by |-> "timer"]
    /\ UNCHANGED <<engine, workers, hist, env, track_info, audio_buffer,
                   vis_state, mix, timing, position_lock>>

\* play_track_at_index(index): self.audio_engine.load_track(filepath)
\* begins; _ensure_stopped() tests and clears the flags
TimerLoadBegin ==
    /\ ctl.pc = "tc_next"
    /\ ctl' = [pc |-> IF is_playing \/ is_paused THEN "es_event"
                      ELSE "ld_load",
               op |-> "load", was_paused |-> FALSE, origin |-> "stopped",
               held |-> 0, before |-> Observable, tag |-> NoTag, arg |-> 0,
               by |-> "timer"]
    /\ IF is_playing \/ is_paused
       THEN /\ is_playing' = FALSE
            /\ is_paused' = FALSE
       ELSE UNCHANGED <<is_playing, is_paused>>
    /\ UNCHANGED <<audio_data, duration, current_position, play_thread,
                   stop_event, seek_requested, seek_position, workers, hist,
                   calls>>
    /\ UNCHANGED aux

\* play_track_at_index(index): load_track() has returned True;
\* self.audio_engine.play() begins
TimerPlayBegin ==
    /\ ctl.pc = "tc_play"
    /\ FreeWorkers # {}
    /\ ctl' = [pc |-> "es_check", op |-> "play", was_paused |-> is_paused,
               origin |-> EngineState, held |-> current_position,
               before |-> NoBefore, tag |-> NoTag, arg |-> 0,
               by |-> "timer"]
    /\ UNCHANGED <<engine, workers, hist, calls>>
    /\ UNCHANGED aux

\* check_track_completion(), no more tracks to play:
\* self.audio_engine.stop() begins
TimerStop ==
    /\ ctl.pc = "tc_stop"
    /\ is_playing' = FALSE
    /\ is_paused' = FALSE
    /\ ctl' = [pc |-> "st_pos", op |-> "stop", was_paused |-> FALSE,
               origin |-> "stopped", held |-> 0, before |-> NoBefore,
               tag |-> NoTag, arg |-> 0, by |-> "timer"]
    /\ UNCHANGED <<audio_data, duration, current_position, play_thread,
                   stop_event, seek_requested, seek_position, workers, hist,
                   calls>>
    /\ UNCHANGED aux

(***************************************************************************)
(* Playback worker thread w (_playback_worker) and the callback of its     *)
(* output stream (audio_callback), which the device thread invokes while   *)
(* the stream is open.                                                     *)
(***************************************************************************)
SetWorker(w, r) == workers' = [workers EXCEPT ![w] = r]

\* start_idx = int(self.current_position * self.sample_rate);
\* last_callback_time = [time.time()]
WorkerInit(w) ==
    /\ workers[w].pc = "start"
    /\ SetWorker(w, [workers[w] EXCEPT
           !.pc = "open", !.start_idx = ToIndex(current_position),
           !.last_callback_time = now])
    /\ UNCHANGED <<engine, ctl, calls, hist>>
    /\ UNCHANGED aux

\* with sd.OutputStream(...): the stream opens;
\* total_samples = len(self.audio_data)
WorkerOpenStream(w) ==
    /\ workers[w].pc = "open"
    /\ SetWorker(w, [workers[w] EXCEPT
           !.pc = "loop", !.total_samples = NumSamples(audio_data)])
    /\ UNCHANGED <<engine, ctl, calls, hist>>
    /\ UNCHANGED aux

\* sd.OutputStream(...) raises: except Exception, then the finally block
WorkerOpenFails(w) ==
    /\ workers[w].pc = "open"
    /\ SetWorker(w, [workers[w] EXCEPT !.pc = "fin", !.error = TRUE])
    /\ UNCHANGED <<engine, ctl, calls, hist>>
    /\ UNCHANGED aux

\* The output stream raises inside the with block, while it is open or
\* when it is closed: except Exception, then the finally block.
WorkerStreamRaises(w) ==
    /\ workers[w].pc = "loop"
    /\ workers[w].cb = "idle"
    /\ SetWorker(w, [workers[w] EXCEPT !.pc = "fin", !.error = TRUE])
    /\ UNCHANGED <<engine, ctl, calls, hist>>
    /\ UNCHANGED aux

\* while self.is_playing and start_idx < total_samples
\*       and not self.stop_event.is_set(): time.sleep(0.05)
\* The loop is left when the condition is found false.  Leaving the with
\* block closes the stream, which waits for a callback in progress; no
\* callback is invoked afterwards.
WorkerLoopExit(w) ==
    /\ workers[w].pc = "loop"
    /\ workers[w].cb = "idle"
    /\ ~(is_playing /\ workers[w].start_idx < workers[w].total_samples
         /\ ~stop_event)
    /\ SetWorker(w, [workers[w] EXCEPT !.pc = "fin"])
    /\ UNCHANGED <<engine, ctl, calls, hist>>
    /\ UNCHANGED aux

\* Variant of WorkerFinally: the flags are left as they are.
WorkerFinallyKeepsFlags(w) ==
    /\ workers[w].pc = "fin"
    /\ SetWorker(w, [workers[w] EXCEPT !.pc = "clear"])
    /\ UNCHANGED <<engine, ctl, calls, hist>>
    /\ UNCHANGED aux

\* finally: if not self.is_paused:
\*              self.is_playing = False; self.is_paused = False
WorkerFinally(w) ==
    /\ workers[w].pc = "fin"
    /\ is_playing' = IF is_paused THEN is_playing ELSE FALSE
    /\ SetWorker(w, [workers[w] EXCEPT !.pc = "clear"])
    /\ UNCHANGED <<audio_data, duration, current_position, is_paused,
                   play_thread, stop_event, seek_requested, seek_position,
                   ctl, calls, hist>>
    /\ UNCHANGED aux

\* finally: self.stop_event.clear(); the thread returns
WorkerExit(w) ==
    /\ workers[w].pc = "clear"
    /\ stop_event' = FALSE
    /\ SetWorker(w, IdleWorker)
    /\ UNCHANGED <<audio_data, duration, current_position, is_playing,
                   is_paused, play_thread, seek_requested, seek_position,
                   ctl, calls, hist>>
    /\ UNCHANGED aux

\* chunk = chunk * self.volume, then for a stereo track
\*   chunk[0, :] *= min(1.0, 1.0 - self.balance)
\*   chunk[1, :] *= min(1.0, 1.0 + self.balance)
\* gain holds, per channel, the factor the slice has been multiplied by (in
\* units of 1 / One for a mono track, 1 / One^2 for a stereo track).
ScaledChunk ==
    [dtype |-> "float32",
     gain |-> IF Channels(audio_data) = 2
              THEN <<volume * Min(One, One - balance),
                     volume * Min(One, One + balance)>>
              ELSE <<volume>>,
     filters |-> {}]

\* The bands _apply_eq_to_chunk applies with the gains in eq: the preamp
\* when its gain is not 1.0 (0 dB), every band whose gain is not 0 dB.
Filters(eq) == {<<k, eq[k]>> : k \in {b \in DOMAIN eq : eq[b] # 0}}

\* Variant of ApplyEqToChunk: the test for "no gain set" is missing; every
\* chunk is copied as float64 and passed to the bands.
ApplyEqNoShortCircuit(chunk) ==
    [chunk EXCEPT !.dtype = "float64", !.filters = Filters(eq_bands)]

\* _apply_eq_to_chunk(chunk): if not self.eq_bands or no gain differs from
\* 0.0, return chunk; otherwise the preamp and the bands with a gain are
\* applied to a float64 copy of each channel.
ApplyEqToChunk(chunk) ==
    IF eq_bands = NoBands \/ \A k \in DOMAIN eq_bands : eq_bands[k] = 0
    THEN chunk
    ELSE [chunk EXCEPT !.dtype = "float64", !.filters = Filters(eq_bands)]

\* Variant of RenderedChunk: the equalizer is applied whether or not it is
\* switched on.
RenderedChunkEqAlways == ApplyEqToChunk(ScaledChunk)

\* audio_callback: volume, balance, then
\*   if self.is_eq_on: chunk = self._apply_eq_to_chunk(chunk)
RenderedChunk == IF is_eq_on THEN ApplyEqToChunk(ScaledChunk) ELSE ScaledChunk

\* audio_callback, up to the computation of new_position:
\*   with self.position_lock: if self.seek_requested, adopt the seek
\*     position as cursor and position and clear the flag;
\*   end_idx = min(start_idx + frames, len(self.audio_data)); the chunk is
\*     audio_data[start_idx:end_idx], zero-padded to frames, scaled by
\*     volume and balance and passed through the equalizer if it is on;
\*   new_position = end_idx / self.sample_rate, clamped to [0, duration].
CallbackBegin(w) ==
    /\ StreamOpen(w)
    /\ workers[w].cb = "idle"
    /\ LET start == IF seek_requested THEN ToIndex(seek_position)
                    ELSE workers[w].start_idx
           end == Min(start + Frames, NumSamples(audio_data))
       IN  SetWorker(w, [workers[w] EXCEPT
               !.cb = "write", !.start_idx = start, !.end_idx = end,
               !.new_position = Max(0, Min(end, duration)),
               !.sought = IF seek_requested THEN hist.last_h ELSE 0,
               !.chunk = RenderedChunk,
               !.callback_time = now])
    /\ IF seek_requested
       THEN /\ current_position' = seek_position
            /\ seek_requested' = FALSE
            /\ hist' = [hist EXCEPT
                   !.seek_for = 0,
                   !.lww = IF hist.lww = "replaced" THEN "adopted"
                           ELSE "none"]
       ELSE UNCHANGED <<current_position, seek_requested, hist>>
    /\ UNCHANGED <<audio_data, duration, is_playing, is_paused, play_thread,
                   stop_event, seek_position, ctl, calls>>
    /\ UNCHANGED aux

\* audio_callback: with position_lock: self.current_position = new_position
CallbackWritePosition(w) ==
    /\ workers[w].cb = "write"
    /\ current_position' = workers[w].new_position
    /\ SetWorker(w, [workers[w] EXCEPT !.cb = "tail", !.new_position = 0])
    /\ UNCHANGED <<audio_data, duration, is_playing, is_paused, play_thread,
                   stop_event, seek_requested, seek_position, ctl, calls, hist>>
    /\ UNCHANGED aux

\* chunk = self.audio_data[start_idx:end_idx], padded with zeros to frames:
\* the sample at index i is written i + 1, silence 0 (the name of the
\* sample; the factor it is multiplied by is in the worker's chunk).
Chunk(start, end) ==
    [i \in 1 .. Frames |-> IF start + i - 1 < end THEN start + i ELSE 0]

\* Variant of DequeAppend: the deque has no maxlen.
DequeAppendUnbounded(buf, x) == Append(buf, x)

\* deque(maxlen=...).append(x): a full deque drops its oldest element.
DequeAppend(buf, x) ==
    IF Len(buf) >= BufferMaxLen THEN Append(Tail(buf), x) ELSE Append(buf, x)

\* for sample in mono_chunk: self.audio_buffer.append(sample)
RECURSIVE AppendAll(_, _)
AppendAll(buf, chunk) ==
    IF chunk = <<>> THEN buf
    ELSE AppendAll(DequeAppend(buf, Head(chunk)), Tail(chunk))

\* audio_callback: the mono chunk is appended to audio_buffer;
\* current_time = time.time()
\* if (current_time - last_callback_time[0]) >= callback_interval:
\*     try: with position_lock: pos_copy = self.current_position
\*          self.playback_callback(pos_copy, self.duration)
\*          last_callback_time[0] = current_time
\*     except Exception: print(...)
\* (when playback_callback raises, last_callback_time keeps its value);
\* the chunk is copied to outdata; start_idx = end_idx;
\* if end_idx >= len(self.audio_data):
\*     self.is_playing = False; self.is_paused = False
CallbackAdvance(w) ==
    /\ workers[w].cb = "tail"
    /\ audio_buffer' =
           AppendAll(audio_buffer,
                     Chunk(workers[w].start_idx, workers[w].end_idx))
    /\ LET at_end == workers[w].end_idx >= NumSamples(audio_data)
           due == now - workers[w].last_callback_time >= CallbackInterval
       IN  /\ \E raises \in env.raises :
                 /\ SetWorker(w, [workers[w] EXCEPT
                        !.cb = "idle",
                        !.start_idx = workers[w].end_idx,
                        !.end_idx = 0,
                        !.first = FALSE,
                        !.sought = 0,
                        !.chunk = NoChunk,
                        !.last_callback_time =
                            IF due /\ ~raises THEN now ELSE @])
                 /\ callback_log' =
                        IF due
                        THEN [seq |-> 1 - callback_log.seq, time |-> now,
                              position |-> current_position,
                              duration |-> duration, raised |-> raises]
                        ELSE callback_log
           /\ is_playing' = IF at_end THEN FALSE ELSE is_playing
           /\ is_paused' = IF at_end THEN FALSE ELSE is_paused
    /\ UNCHANGED <<audio_data, duration, current_position, play_thread,
                   stop_event, seek_requested, seek_position, ctl, calls,
                   hist>>
    /\ UNCHANGED <<env, track_info, vis_state, mix, playback_state, now,
                   position_lock>>

\* Time passes, by a tick; a callback in progress returns well within the
\* tick it was invoked in.
Tick ==
    /\ now < MaxTime
    /\ \A w \in Workers : workers[w].cb = "idle"
    /\ now' = now + 1
    /\ UNCHANGED <<engine, ctl, calls, workers, hist, env, track_info,
                   audio_buffer, vis_state, mix, playback_state,
                   callback_log, position_lock>>

\* The device asks the stream of worker w for a chunk: blocksize frames
\* after it asked for the previous one.
DeviceCallback(w) ==
    /\ workers[w].first \/ now - workers[w].callback_time >= ChunkTicks
    /\ CallbackBegin(w)

(***************************************************************************)
(* Visualization: set_visualization_mode() called by the UI, the thread    *)
(* _visualization_worker, and the UI timer that drains the queue.          *)
(***************************************************************************)
VisModes == {"SPECTRUM", "OSCILLOSCOPE", "OFF"}

\* threading.Thread.is_alive() of self.vis_thread
VisThreadAlive == vis_worker.pc # "done"

\* set_visualization_mode(mode): self.vis_mode = mode; for a drawing mode,
\* start_visualization_thread() unless a thread is alive (clear the stop
\* event, start the thread); for OFF, stop_visualization_thread() (set the
\* stop event, then join).
SetVisualizationMode ==
    /\ ctl.pc = "idle"
    /\ \E mode \in VisModes :
         /\ vis_mode' = mode
         /\ IF mode \in {"SPECTRUM", "OSCILLOSCOPE"}
            THEN /\ Call("vis_mode", "idle")
                 /\ IF VisThreadAlive
                    THEN UNCHANGED <<vis_stop_event, vis_worker>>
                    ELSE /\ vis_stop_event' = FALSE
                         /\ vis_worker' = [vis_worker EXCEPT !.pc = "poll"]
            ELSE /\ Call("vis_mode", "vm_join")
                 /\ vis_stop_event' = TRUE
                 /\ UNCHANGED vis_worker
    /\ UNCHANGED <<engine, workers, hist, env, track_info, audio_buffer,
                   vis_data_queue, mix, playback_state, timing, position_lock>>

\* stop_visualization_thread(): the join returns because the thread has
\* terminated, or there is no live thread to join.
VisJoin ==
    /\ ctl.pc = "vm_join"
    /\ ~VisThreadAlive
    /\ Goto("idle")
    /\ UNCHANGED <<engine, workers, hist, aux>>

\* stop_visualization_thread(): join(timeout=1.0) returns with the thread
\* still alive.
VisJoinTimeout ==
    /\ ctl.pc = "vm_join"
    /\ VisThreadAlive
    /\ Goto("idle")
    /\ UNCHANGED <<engine, workers, hist, aux>>

\* _visualization_worker: while not self.vis_stop_event.is_set(): the loop
\* is left when the event is set and the thread returns.
VisWorkerExit ==
    /\ vis_worker.pc = "poll"
    /\ vis_stop_event
    /\ vis_worker' = [vis_worker EXCEPT !.pc = "done"]
    /\ UNCHANGED <<engine, ctl, calls, workers, hist, env, track_info,
                   audio_buffer, vis_mode, vis_stop_event, vis_data_queue,
                   mix, playback_state, timing, position_lock>>

\* Variant of VisWorkerSample: the buffer is sampled whether or not the
\* engine is playing.
VisWorkerSampleUntested ==
    /\ vis_worker.pc = "poll"
    /\ ~vis_stop_event
    /\ vis_worker.produced < MaxVisFrames
    /\ Len(audio_buffer) > 0
    /\ vis_worker' = [vis_worker EXCEPT !.pc = "process",
                                        !.samples = audio_buffer]
    /\ UNCHANGED <<engine, ctl, calls, workers, hist, env, track_info,
                   audio_buffer, vis_mode, vis_stop_event, vis_data_queue,
                   mix, playback_state, timing, position_lock>>

\* _visualization_worker: if self.is_playing and not self.is_paused and
\* self.audio_data is not None and len(self.audio_buffer) > 0:
\*     audio_samples = np.array(list(self.audio_buffer))
\* (otherwise the thread sleeps and tests again).
VisWorkerSample ==
    /\ vis_worker.pc = "poll"
    /\ ~vis_stop_event
    /\ vis_worker.produced < MaxVisFrames
    /\ is_playing /\ ~is_paused /\ audio_data # 0
    /\ Len(audio_buffer) > 0
    /\ vis_worker' = [vis_worker EXCEPT !.pc = "process",
                                        !.samples = audio_buffer]
    /\ UNCHANGED <<engine, ctl, calls, workers, hist, env, track_info,
                   audio_buffer, vis_mode, vis_stop_event, vis_data_queue,
                   mix, playback_state, timing, position_lock>>

\* _visualization_worker: the test of a cycle fails (the engine is not
\* playing, no track is loaded, or the buffer is empty); nothing is done
\* and the thread sleeps.
VisWorkerIdle ==
    /\ vis_worker.pc = "poll"
    /\ ~vis_stop_event
    /\ ~(/\ is_playing /\ ~is_paused /\ audio_data # 0
         /\ Len(audio_buffer) > 0)
    /\ vis_worker' = [vis_worker EXCEPT !.pc = "sleep"]
    /\ UNCHANGED <<engine, ctl, calls, workers, hist, env, track_info,
                   audio_buffer, vis_mode, vis_stop_event, vis_data_queue,
                   mix, playback_state, timing, position_lock>>

\* _visualization_worker: time.sleep(0.033) returns; the loop condition is
\* tested next.
VisWorkerWake ==
    /\ vis_worker.pc = "sleep"
    /\ vis_worker' = [vis_worker EXCEPT !.pc = "poll"]
    /\ UNCHANGED <<engine, ctl, calls, workers, hist, env, track_info,
                   audio_buffer, vis_mode, vis_stop_event, vis_data_queue,
                   mix, playback_state, timing, position_lock>>

\* if len(audio_samples) < 512: the least number of samples transformed,
\* scaled down with the buffer.
MinFftSamples == BufferMaxLen \div 2 + 1

\* The number of bands of a spectrum frame.
NumBands == 19

\* self.sample_rate of a 44100 Hz track.
SampleRate == 44100

\* np.logspace(np.log10(20), np.log10(20000), 20): the band edges in Hz,
\* rounded down.
LogFreqs ==
    <<20, 28, 41, 59, 85, 123, 177, 254, 366, 527, 758, 1091, 1569, 2257,
      3247, 4671, 6719, 9665, 13903, 20000>>

\* band_magnitude ** 0.3 in fixed point: the largest y with
\* (y / One) ^ 10 <= (m / One) ^ 3.
Pow03(m) ==
    CHOOSE y \in 0 .. 2 * One :
        /\ y ^ 10 <= m ^ 3 * One ^ 7
        /\ (y + 1) ^ 10 > m ^ 3 * One ^ 7

\* Variant of Normalized: the value is not capped at 1.0.
NormalizedUncapped(band_magnitude) == Pow03(band_magnitude)

\* normalized = min(1.0, band_magnitude**0.3)
Normalized(band_magnitude) == Min(One, Pow03(band_magnitude))

\* sum(magnitude[lo - 1 : hi]) for the bins lo .. hi, counted from 1
RECURSIVE SumBins(_, _, _)
SumBins(magnitude, lo, hi) ==
    IF lo > hi THEN 0 ELSE magnitude[lo] + SumBins(magnitude, lo + 1, hi)

\* _process_spectrum_data(audio_samples), np.fft.rfft returning magnitude
\* (bin k of the source is magnitude[k + 1]): too few samples give 19
\* zeros; otherwise the 20 band edges are converted to bins and clipped
\* to the bins there are, and each band is the mean of its bins, or its
\* first bin when it has none, normalized.
ProcessSpectrumData(audio_samples, magnitude) ==
    IF Len(audio_samples) < MinFftSamples
    THEN [i \in 1 .. NumBands |-> 0]
    ELSE LET fft_size == Min(BufferMaxLen, Len(audio_samples))
             bins == fft_size \div 2 + 1
             band_edges ==
                 [i \in 1 .. NumBands + 1 |->
                     Max(0, Min(bins - 1,
                                (LogFreqs[i] * fft_size) \div SampleRate))]
         IN  [i \in 1 .. NumBands |->
                 LET start_bin == band_edges[i]
                     end_bin == band_edges[i + 1]
                     band_magnitude ==
                         IF end_bin > start_bin
                         THEN SumBins(magnitude, start_bin + 1, end_bin)
                                  \div (end_bin - start_bin)
                         ELSE magnitude[start_bin + 1]
                 IN  Normalized(band_magnitude)]

\* self.vis_data_queue.put(vis_data, block=False) on queue.Queue(): the
\* queue has no maxsize, put never raises queue.Full.
QueuePut(q, frame) == Append(q, frame)

\* _visualization_worker: vis_data is computed for the mode read now (the
\* bands of the spectrum, or the samples themselves) and, unless it is
\* None, put in the queue; then the thread sleeps.
VisWorkerPublish ==
    /\ vis_worker.pc = "process"
    /\ IF vis_mode \in {"SPECTRUM", "OSCILLOSCOPE"}
       THEN /\ \E magnitude \in env.mags :
                   vis_data_queue' =
                       QueuePut(vis_data_queue,
                                [kind |-> vis_mode,
                                 samples |-> vis_worker.samples,
                                 seq |-> vis_worker.produced + 1,
                                 data |-> IF vis_mode = "SPECTRUM"
                                          THEN ProcessSpectrumData(
                                                   vis_worker.samples,
                                                   magnitude)
                                          ELSE vis_worker.samples])
            /\ vis_worker' = [pc |-> "sleep", samples |-> <<>>,
                              produced |-> vis_worker.produced + 1]
       ELSE /\ vis_worker' = [vis_worker EXCEPT !.pc = "sleep",
                                                !.samples = <<>>]
            /\ UNCHANGED vis_data_queue
    /\ UNCHANGED <<engine, ctl, calls, workers, hist, env, track_info,
                   audio_buffer, vis_mode, vis_stop_event, mix,
                   playback_state, timing, position_lock>>

\* update_visualization() of the main window: frames are taken with
\* get_nowait() until the queue is empty.
UpdateVisualization ==
    /\ ctl.pc = "idle"
    /\ vis_data_queue # <<>>
    /\ vis_data_queue' = <<>>
    /\ UNCHANGED <<engine, ctl, calls, workers, hist, env, track_info,
                   audio_buffer, vis_mode, vis_stop_event, vis_worker, mix,
                   playback_state, timing, position_lock>>

VisStep ==
    \/ SetVisualizationMode \/ VisJoin \/ VisJoinTimeout
    \/ VisWorkerExit \/ VisWorkerSample \/ VisWorkerIdle
    \/ VisWorkerPublish \/ VisWorkerWake
    \/ UpdateVisualization

\* The control calls, every join waiting for the thread to terminate.
ControlStep ==
    \/ LoadBegin \/ LoadDecode \/ LoadDecodeFails \/ LoadResetPosition
    \/ LoadSetDuration \/ LoadResetSeek
    \/ EnsureStoppedCheck \/ EnsureStoppedSetEvent \/ EnsureStoppedJoin
    \/ PlayNoTrack \/ PlayBegin \/ PlayResetPosition \/ PlaySetPlaying
    \/ PlayStartThread
    \/ PauseNotPlaying \/ PauseSetPaused \/ PauseClearPlaying
    \/ StopClearFlags \/ StopResetPosition \/ StopSetEvent \/ StopJoin
    \/ SeekNoTrack \/ Seek

\* A join gives up after its timeout.
JoinTimeout == EnsureStoppedJoinTimeout \/ StopJoinTimeout

WorkerStep(w) ==
    \/ WorkerInit(w) \/ WorkerOpenStream(w) \/ WorkerOpenFails(w)
    \/ WorkerLoopExit(w) \/ WorkerFinally(w) \/ WorkerExit(w)

CallbackStep(w) ==
    \/ CallbackBegin(w) \/ CallbackWritePosition(w) \/ CallbackAdvance(w)

\* Every join returns only when the joined thread has terminated.
NextJoined ==
    \/ ControlStep
    \/ \E w \in Workers : WorkerStep(w)
    \/ \E w \in Workers : CallbackStep(w)

Next ==
    \/ NextJoined
    \/ JoinTimeout

\* The engine, join timeouts included.
Spec == Init /\ [][Next]_vars

\* The engine in the runs in which no join times out.
SpecJoined == Init /\ [][NextJoined]_vars

\* load_track() and play() have returned: a track is playing from the start,
\* its worker thread has just been started.
Started ==
    /\ audio_data \in {1, 3}
    /\ duration = NumSamples(audio_data)
    /\ current_position = 0
    /\ is_playing = TRUE
    /\ is_paused = FALSE
    /\ play_thread = 1
    /\ stop_event = FALSE
    /\ seek_requested = FALSE
    /\ seek_position = 0
    /\ ctl = [pc |-> "idle", op |-> "play", was_paused |-> FALSE,
              origin |-> "stopped", held |-> 0, before |-> NoBefore,
              tag |-> NoTag, arg |-> 0, by |-> "user"]
    /\ calls = 2
    /\ workers = [w \in Workers |->
                     IF w = 1
                     THEN [IdleWorker EXCEPT !.pc = "start", !.first = TRUE]
                     ELSE IdleWorker]
    /\ hist = NoHistory
    /\ file_path = audio_data
    /\ metadata = [title |-> "text", artist |-> "text", album |-> "text",
                   album_artist |-> "text", album_art |-> "None",
                   duration |-> duration]
    /\ bitrate = 128
    /\ is_vbr = FALSE
    /\ audio_buffer = <<>>
    /\ vis_mode = "SPECTRUM"
    /\ vis_stop_event = FALSE
    /\ vis_data_queue = <<>>
    /\ vis_worker = IdleVisWorker
    /\ volume = One
    /\ balance = 0
    /\ is_eq_on = FALSE
    /\ eq_bands = NoBands
    /\ playback_state = NoState
    /\ now = 0
    /\ callback_log = NoLog
    /\ position_lock = Nobody

\* A track is playing from the start; the user seeks anywhere.
InitSeek ==
    /\ Started
    /\ env = [tracks |-> {audio_data}, tags |-> {FullTag},
              seeks |-> SeekHalves, mags |-> {Silence}, raises |-> {FALSE}]

\* A new engine; the user has the short track and a file that decodes to
\* nothing, and seeks to -0.5, 0.5 or 1.5.
InitFiles ==
    /\ Constructed
    /\ env = [tracks |-> {1, 2}, tags |-> {FullTag}, seeks |-> {-1, 1, 3},
              mags |-> {Silence}, raises |-> {FALSE}]

\* The engine with two files at hand, in the runs in which no join times out.
SpecFiles == InitFiles /\ [][NextJoined]_vars

\* A new engine; the user has files of every kind of tag.
InitLoad ==
    /\ Constructed
    /\ env = [tracks |-> {1, 2}, tags |-> Tags, seeks |-> {},
              mags |-> {Silence}, raises |-> {FALSE}]

NextLoad ==
    \/ LoadBegin \/ LoadDecode \/ LoadDecodeFails \/ LoadResetPosition
    \/ LoadSetDuration \/ LoadResetSeek

\* The runs in which the user only opens files.
SpecLoad == InitLoad /\ [][NextLoad]_vars

\* load_track() and play() have returned: the short track is playing from
\* the start, its worker thread has just been started; the UI has not set
\* the visualization mode yet.
InitVis ==
    /\ InitSeek
    /\ audio_data = 1

NextVis ==
    \/ PauseSetPaused \/ PauseClearPlaying
    \/ \E w \in Workers : WorkerStep(w)
    \/ \E w \in Workers : CallbackStep(w)
    \/ VisStep

\* One playback of a track, which the user may pause, with the
\* visualization switched between its modes.
SpecVis == InitVis /\ [][NextVis]_vars

\* The inputs of _process_spectrum_data: the short track is playing, its
\* first chunk has been rendered, set_visualization_mode("SPECTRUM") has
\* returned; the buffer holds the n most recent samples, for every n up to
\* its capacity, and the FFT returns any magnitudes.
InitSpectrum ==
    /\ audio_data = 1
    /\ duration = NumSamples(1)
    /\ current_position = Frames
    /\ is_playing = TRUE
    /\ is_paused = FALSE
    /\ play_thread = 1
    /\ stop_event = FALSE
    /\ seek_requested = FALSE
    /\ seek_position = 0
    /\ ctl = [pc |-> "idle", op |-> "vis_mode", was_paused |-> FALSE,
              origin |-> "stopped", held |-> 0, before |-> NoBefore,
              tag |-> NoTag, arg |-> 0, by |-> "user"]
    /\ calls = 3
    /\ workers = [w \in Workers |->
                     IF w = 1
                     THEN [IdleWorker EXCEPT !.pc = "loop",
                                             !.start_idx = Frames,
                                             !.total_samples = NumSamples(1)]
                     ELSE IdleWorker]
    /\ hist = NoHistory
    /\ file_path = 1
    /\ metadata = [title |-> "text", artist |-> "text", album |-> "text",
                   album_artist |-> "text", album_art |-> "None",
                   duration |-> duration]
    /\ bitrate = 128
    /\ is_vbr = FALSE
    /\ \E n \in 1 .. BufferMaxLen :
           audio_buffer = [i \in 1 .. n |-> Frames - n + i]
    /\ vis_mode = "SPECTRUM"
    /\ vis_stop_event = FALSE
    /\ vis_data_queue = <<>>
    /\ vis_worker = [IdleVisWorker EXCEPT !.pc = "poll"]
    /\ volume = One
    /\ balance = 0
    /\ is_eq_on = FALSE
    /\ eq_bands = NoBands
    /\ playback_state = NoState
    /\ now = 0
    /\ callback_log = NoLog
    /\ position_lock = Nobody
    /\ \E magnitude \in Magnitudes :
           env = [tracks |-> {1}, tags |-> {FullTag}, seeks |-> {},
                  mags |-> {magnitude}, raises |-> {FALSE}]

NextSpectrum ==
    \/ VisWorkerSample \/ VisWorkerPublish \/ VisWorkerWake
    \/ UpdateVisualization

\* The cycles of the visualization thread on a buffer of any length.
SpecSpectrum == InitSpectrum /\ [][NextSpectrum]_vars

\* The engine as the main window leaves it at startup: constructed, then
\* set_visualization_mode("SPECTRUM") called, which started the
\* visualization thread.
InitOff ==
    /\ audio_data = 0
    /\ duration = 0
    /\ current_position = 0
    /\ is_playing = FALSE
    /\ is_paused = FALSE
    /\ play_thread = 0
    /\ stop_event = FALSE
    /\ seek_requested = FALSE
    /\ seek_position = 0
    /\ ctl = [pc |-> "idle", op |-> "vis_mode", was_paused |-> FALSE,
              origin |-> "stopped", held |-> 0, before |-> NoBefore,
              tag |-> NoTag, arg |-> 0, by |-> "user"]
    /\ calls = 1
    /\ workers = [w \in Workers |-> IdleWorker]
    /\ hist = NoHistory
    /\ file_path = 0
    /\ metadata = NoMetadata
    /\ bitrate = 0
    /\ is_vbr = FALSE
    /\ audio_buffer = <<>>
    /\ vis_mode = "SPECTRUM"
    /\ vis_stop_event = FALSE
    /\ vis_data_queue = <<>>
    /\ vis_worker = [IdleVisWorker EXCEPT !.pc = "poll"]
    /\ volume = One
    /\ balance = 0
    /\ is_eq_on = FALSE
    /\ eq_bands = NoBands
    /\ playback_state = NoState
    /\ now = 0
    /\ callback_log = NoLog
    /\ position_lock = Nobody
    /\ env = [tracks |-> {1}, tags |-> {FullTag}, seeks |-> {1},
              mags |-> {Silence}, raises |-> {FALSE}]

NextOff ==
    \/ Next
    \/ VisStep

\* The engine and the visualization from startup, join timeouts included.
SpecOff == InitOff /\ [][NextOff]_vars

\* A track, mono or stereo, is playing from the start; the user moves the
\* volume, balance and equalizer controls and the UI polls the state.
InitMix ==
    /\ Started
    /\ env = [tracks |-> {audio_data}, tags |-> {FullTag}, seeks |-> {},
              mags |-> {Silence}, raises |-> {FALSE}]

NextMix ==
    \/ SetVolume \/ SetBalance \/ SetEq \/ ToggleEq
    \/ GetPlaybackState \/ CallerWritesState
    \/ \E w \in Workers : WorkerStep(w)
    \/ \E w \in Workers : CallbackStep(w)

\* One playback of a track with the mix changed and the state polled
\* during it.
SpecMix == InitMix /\ [][NextMix]_vars

\* The short track is playing from the start on an output device that can
\* fail when it is opened and while it streams; the user plays, pauses and
\* stops.
InitDevice ==
    /\ Started
    /\ audio_data = 1
    /\ env = [tracks |-> {audio_data}, tags |-> {FullTag}, seeks |-> {},
              mags |-> {Silence}, raises |-> {FALSE}]

NextDevice ==
    \/ EnsureStoppedCheck \/ EnsureStoppedSetEvent \/ EnsureStoppedJoin
    \/ PlayBegin \/ PlayResetPosition \/ PlaySetPlaying \/ PlayStartThread
    \/ PauseNotPlaying \/ PauseSetPaused \/ PauseClearPlaying
    \/ StopClearFlags \/ StopResetPosition \/ StopSetEvent \/ StopJoin
    \/ JoinTimeout
    \/ \E w \in Workers : WorkerStep(w)
    \/ \E w \in Workers : WorkerStreamRaises(w)
    \/ \E w \in Workers : CallbackStep(w)

\* Playbacks on an output device that can fail.
SpecDevice == InitDevice /\ [][NextDevice]_vars

\* The long track is playing from the start and is left to play; the
\* position callback the UI installed can raise.
InitThrottle ==
    /\ Started
    /\ audio_data = 3
    /\ env = [tracks |-> {audio_data}, tags |-> {FullTag}, seeks |-> {},
              mags |-> {Silence}, raises |-> BOOLEAN]

NextThrottle ==
    \/ Tick
    \/ \E w \in Workers : WorkerStep(w)
    \/ \E w \in Workers : DeviceCallback(w)
    \/ \E w \in Workers : CallbackWritePosition(w)
    \/ \E w \in Workers : CallbackAdvance(w)

\* One playback with the clock running.
SpecThrottle == InitThrottle /\ [][NextThrottle]_vars

\* The short track is playing from the start; the user can pause and stop
\* it, and the timer of the main window checks for its completion.
InitCompletion ==
    /\ Started
    /\ audio_data = 1
    /\ env = [tracks |-> {audio_data}, tags |-> {FullTag}, seeks |-> {},
              mags |-> {Silence}, raises |-> {FALSE}]

NextCompletion ==
    \/ CheckTrackCompletion \/ TimerLoadBegin \/ TimerPlayBegin \/ TimerStop
    \/ LoadDecode \/ LoadDecodeFails \/ LoadResetPosition
    \/ LoadSetDuration \/ LoadResetSeek
    \/ EnsureStoppedCheck \/ EnsureStoppedSetEvent \/ EnsureStoppedJoin
    \/ PlayResetPosition \/ PlaySetPlaying \/ PlayStartThread
    \/ PauseNotPlaying \/ PauseSetPaused \/ PauseClearPlaying
    \/ StopClearFlags \/ StopResetPosition \/ StopSetEvent \/ StopJoin
    \/ \E w \in Workers : WorkerStep(w)
    \/ \E w \in Workers : CallbackStep(w)

\* A playback, the pause and stop buttons and the completion timer, in the
\* runs in which no join times out.
SpecCompletion == InitCompletion /\ [][NextCompletion]_vars

(***************************************************************************)
(* position_lock.  The steps below are those of the calls and of the       *)
(* callback that take the lock, one step for each acquisition and one for  *)
(* each `with` block, which ends by releasing the lock.  The lock is a     *)
(* threading.Lock: acquiring it blocks while any thread holds it, the      *)
(* acquiring thread included.                                              *)
(***************************************************************************)

\* Where the control thread waits for position_lock:
\*   load_track()           with self.position_lock:   (the seek reset)
\*   seek()                 with self.position_lock:
\*   get_current_position() with self.position_lock:
\*   get_playback_state()   with self.position_lock:
ControlWaits == {"ld_seek", "sk_wait", "gp_wait", "gs_wait"}

\* Where the control thread is inside one of these `with` blocks.
ControlLocked == {"ld_seek_locked", "sk_locked", "gp_locked", "gs_locked"}

\* Where the callback waits for position_lock: the three `with` blocks of
\* audio_callback, and the one of a get_playback_state() that
\* playback_callback makes.
CallbackWaits == {"seek_wait", "write_wait", "copy_wait", "user_wait"}

\* Where the callback is inside one of these `with` blocks.
CallbackLocked == {"seek_locked", "write_locked", "copy_locked", "user_locked"}

\* The block a thread enters when it acquires the lock at pc.
LockedAt(pc) ==
    CASE pc = "ld_seek" -> "ld_seek_locked"
      [] pc = "sk_wait" -> "sk_locked"
      [] pc = "gp_wait" -> "gp_locked"
      [] pc = "gs_wait" -> "gs_locked"
      [] pc = "seek_wait" -> "seek_locked"
      [] pc = "write_wait" -> "write_locked"
      [] pc = "copy_wait" -> "copy_locked"
      [] pc = "user_wait" -> "user_locked"

\* The state that the steps of the lock leave alone unless they say so.
unlocked == <<env, track_info, audio_buffer, vis_state, mix, timing>>

\* with self.position_lock: entered by the control thread.
ControlAcquire ==
    /\ ctl.pc \in ControlWaits
    /\ position_lock = Nobody
    /\ position_lock' = ControlThread
    /\ Goto(LockedAt(ctl.pc))
    /\ UNCHANGED <<engine, workers, hist, playback_state, unlocked>>

\* seek(position): if self.audio_data is not None: target_sample and
\* target_time are computed; the call reaches its `with` block.
SeekEnter ==
    /\ ctl.pc = "idle"
    /\ audio_data # 0
    /\ \E h \in env.seeks : CallWith("seek", "sk_wait", h)
    /\ UNCHANGED <<engine, workers, hist>>
    /\ UNCHANGED aux

\* seek(): with self.position_lock:
\*     self.current_position = target_time
\*     self.seek_position = target_time
\*     self.seek_requested = True
LockedSeek ==
    /\ ctl.pc = "sk_locked"
    /\ position_lock = ControlThread
    /\ LET target_time == TargetTime(ctl.arg, duration)
       IN  /\ current_position' = target_time
           /\ seek_position' = target_time
           /\ seek_requested' = TRUE
           /\ hist' = [seek_for |-> IF is_playing /\ PlayThreadAlive
                                    THEN play_thread ELSE 0,
                       last_h |-> ctl.arg,
                       last_target |-> target_time,
                       lww |-> IF seek_requested
                                  /\ seek_position # target_time
                               THEN "replaced"
                               ELSE IF seek_requested THEN hist.lww
                               ELSE "none"]
    /\ position_lock' = Nobody
    /\ Goto("idle")
    /\ UNCHANGED <<audio_data, duration, is_playing, is_paused, play_thread,
                   stop_event, workers, playback_state, unlocked>>

\* get_current_position() is called.
GetCurrentPositionEnter ==
    /\ ctl.pc = "idle"
    /\ Call("get_current_position", "gp_wait")
    /\ UNCHANGED <<engine, workers, hist>>
    /\ UNCHANGED aux

\* get_current_position(): with self.position_lock:
\*     return self.current_position
LockedGetCurrentPosition ==
    /\ ctl.pc = "gp_locked"
    /\ position_lock = ControlThread
    /\ position_lock' = Nobody
    /\ ctl' = [ctl EXCEPT !.pc = "idle", !.arg = current_position]
    /\ UNCHANGED <<engine, calls, workers, hist, playback_state, unlocked>>

\* get_playback_state() is called.
GetPlaybackStateEnter ==
    /\ ctl.pc = "idle"
    /\ Call("get_playback_state", "gs_wait")
    /\ UNCHANGED <<engine, workers, hist>>
    /\ UNCHANGED aux

\* get_playback_state(): with self.position_lock: return {...}
LockedGetPlaybackState ==
    /\ ctl.pc = "gs_locked"
    /\ position_lock = ControlThread
    /\ playback_state' =
           [is_playing |-> is_playing, is_paused |-> is_paused,
            position |-> current_position, duration |-> duration,
            volume |-> volume]
    /\ position_lock' = Nobody
    /\ Goto("idle")
    /\ UNCHANGED <<engine, workers, hist, unlocked>>

\* load_track(): with self.position_lock:
\*     self.seek_requested = False
\*     self.seek_position = 0.0
LockedLoadResetSeek ==
    /\ ctl.pc = "ld_seek_locked"
    /\ position_lock = ControlThread
    /\ seek_requested' = FALSE
    /\ seek_position' = 0
    /\ hist' = NoHistory
    /\ position_lock' = Nobody
    /\ Goto("ld_meta")
    /\ UNCHANGED <<audio_data, duration, current_position, is_playing,
                   is_paused, play_thread, stop_event, workers,
                   playback_state, unlocked>>

\* load_track(), after the block: if len(self.audio_data) == 0: return False;
\* self._load_metadata(file_path); return True
LoadReturn ==
    /\ ctl.pc = "ld_meta"
    /\ IF NumSamples(audio_data) = 0
       THEN /\ ctl' = [ctl EXCEPT !.pc = "idle", !.op = "load_failed",
                                  !.before = NoBefore]
            /\ UNCHANGED <<metadata, bitrate, is_vbr>>
       ELSE \E tag \in env.tags :
                /\ LoadMetadata(tag)
                /\ ctl' = [ctl EXCEPT !.pc = "idle", !.before = NoBefore,
                                      !.tag = tag]
    /\ UNCHANGED <<engine, workers, calls, hist, file_path, env, audio_buffer,
                   vis_state, mix, playback_state, timing, position_lock>>

\* The device asks the stream of worker w for a chunk: audio_callback is
\* entered and reaches its first `with` block.
AudioCallbackEnter(w) ==
    /\ StreamOpen(w)
    /\ workers[w].cb = "idle"
    /\ workers[w].first \/ now - workers[w].callback_time >= ChunkTicks
    /\ SetWorker(w, [workers[w] EXCEPT !.cb = "seek_wait",
                                       !.callback_time = now])
    /\ UNCHANGED <<engine, ctl, calls, hist>>
    /\ UNCHANGED aux

\* with self.position_lock: (with position_lock:) entered by the callback
\* of worker w.
CallbackAcquire(w) ==
    /\ workers[w].cb \in CallbackWaits
    /\ position_lock = Nobody
    /\ position_lock' = w
    /\ SetWorker(w, [workers[w] EXCEPT !.cb = LockedAt(@)])
    /\ UNCHANGED <<engine, ctl, calls, hist, playback_state, unlocked>>

\* audio_callback: with self.position_lock:
\*     if self.seek_requested:
\*         start_idx = int(self.seek_position * self.sample_rate)
\*         self.current_position = self.seek_position
\*         self.seek_requested = False
LockedSeekCheck(w) ==
    /\ workers[w].cb = "seek_locked"
    /\ position_lock = w
    /\ SetWorker(w, [workers[w] EXCEPT
           !.cb = "render",
           !.start_idx = IF seek_requested THEN ToIndex(seek_position) ELSE @,
           !.sought = IF seek_requested THEN hist.last_h ELSE 0])
    /\ IF seek_requested
       THEN /\ current_position' = seek_position
            /\ seek_requested' = FALSE
            /\ hist' = [hist EXCEPT
                   !.seek_for = 0,
                   !.lww = IF hist.lww = "replaced" THEN "adopted"
                           ELSE "none"]
       ELSE UNCHANGED <<current_position, seek_requested, hist>>
    /\ position_lock' = Nobody
    /\ UNCHANGED <<audio_data, duration, is_playing, is_paused, play_thread,
                   stop_event, seek_position, ctl, calls, playback_state,
                   unlocked>>

\* audio_callback, between its first two blocks: end_idx, the chunk, and
\* new_position = end_idx / self.sample_rate, clamped to [0, duration].
CallbackRender(w) ==
    /\ workers[w].cb = "render"
    /\ LET end == Min(workers[w].start_idx + Frames, NumSamples(audio_data))
       IN  SetWorker(w, [workers[w] EXCEPT
               !.cb = "write_wait", !.end_idx = end,
               !.new_position = Max(0, Min(end, duration)),
               !.chunk = RenderedChunk])
    /\ UNCHANGED <<engine, ctl, calls, hist>>
    /\ UNCHANGED aux

\* audio_callback: with position_lock: self.current_position = new_position
LockedWritePosition(w) ==
    /\ workers[w].cb = "write_locked"
    /\ position_lock = w
    /\ current_position' = workers[w].new_position
    /\ SetWorker(w, [workers[w] EXCEPT !.cb = "append", !.new_position = 0])
    /\ position_lock' = Nobody
    /\ UNCHANGED <<audio_data, duration, is_playing, is_paused, play_thread,
                   stop_event, seek_requested, seek_position, ctl, calls,
                   hist, playback_state, unlocked>>

\* audio_callback: the mono chunk is appended to audio_buffer;
\* current_time = time.time()
\* if (current_time - last_callback_time[0]) >= callback_interval:
\*     the callback reaches its third `with` block.
CallbackAppend(w) ==
    /\ workers[w].cb = "append"
    /\ audio_buffer' =
           AppendAll(audio_buffer,
                     Chunk(workers[w].start_idx, workers[w].end_idx))
    /\ SetWorker(w, [workers[w] EXCEPT
           !.cb = IF now - workers[w].last_callback_time
                         >= CallbackInterval
                  THEN "copy_wait" ELSE "return"])
    /\ UNCHANGED <<engine, ctl, calls, hist, env, track_info, vis_state, mix,
                   playback_state, timing, position_lock>>

\* Variant of LockedCopyPosition: playback_callback is invoked inside the
\* `with` block.
LockedCopyPositionKeepsLock(w) ==
    /\ workers[w].cb = "copy_locked"
    /\ position_lock = w
    /\ SetWorker(w, [workers[w] EXCEPT !.cb = "notify",
                                       !.pos_copy = current_position])
    /\ UNCHANGED <<engine, ctl, calls, hist>>
    /\ UNCHANGED aux

\* audio_callback: with position_lock: pos_copy = self.current_position
LockedCopyPosition(w) ==
    /\ workers[w].cb = "copy_locked"
    /\ position_lock = w
    /\ SetWorker(w, [workers[w] EXCEPT !.cb = "notify",
                                       !.pos_copy = current_position])
    /\ position_lock' = Nobody
    /\ UNCHANGED <<engine, ctl, calls, hist, playback_state, unlocked>>

\* audio_callback: self.playback_callback(pos_copy, self.duration) is
\* invoked.  It returns, or raises, or calls get_playback_state() first and
\* reaches the `with` block of that call:
\*         last_callback_time[0] = current_time
\*     except Exception as e: print(...)
CallbackNotify(w) ==
    /\ workers[w].cb = "notify"
    /\ \E raises \in env.raises, reads \in BOOLEAN :
          /\ ~(raises /\ reads)
          /\ SetWorker(w, [workers[w] EXCEPT
                 !.cb = IF reads THEN "user_wait" ELSE "return",
                 !.pos_copy = 0,
                 !.last_callback_time =
                     IF raises \/ reads THEN @
                     ELSE workers[w].callback_time])
          /\ callback_log' =
                 [seq |-> 1 - callback_log.seq, time |-> now,
                  position |-> workers[w].pos_copy,
                  duration |-> duration, raised |-> raises]
    /\ UNCHANGED <<engine, ctl, calls, hist, env, track_info, audio_buffer,
                   vis_state, mix, playback_state, now, position_lock>>

\* get_playback_state(), called by playback_callback on the thread of the
\* callback: with self.position_lock: return {...}; playback_callback
\* returns and last_callback_time[0] = current_time.
LockedUserGetPlaybackState(w) ==
    /\ workers[w].cb = "user_locked"
    /\ position_lock = w
    /\ playback_state' =
           [is_playing |-> is_playing, is_paused |-> is_paused,
            position |-> current_position, duration |-> duration,
            volume |-> volume]
    /\ SetWorker(w, [workers[w] EXCEPT
           !.cb = "return",
           !.last_callback_time = workers[w].callback_time])
    /\ position_lock' = Nobody
    /\ UNCHANGED <<engine, ctl, calls, hist, unlocked>>

\* audio_callback: the chunk is copied to outdata; start_idx = end_idx;
\* if end_idx >= len(self.audio_data):
\*     self.is_playing = False; self.is_paused = False
CallbackReturn(w) ==
    /\ workers[w].cb = "return"
    /\ SetWorker(w, [workers[w] EXCEPT
           !.cb = "idle", !.start_idx = workers[w].end_idx, !.end_idx = 0,
           !.first = FALSE, !.sought = 0, !.chunk = NoChunk])
    /\ LET at_end == workers[w].end_idx >= NumSamples(audio_data)
       IN  /\ is_playing' = IF at_end THEN FALSE ELSE is_playing
           /\ is_paused' = IF at_end THEN FALSE ELSE is_paused
    /\ UNCHANGED <<audio_data, duration, current_position, play_thread,
                   stop_event, seek_requested, seek_position, ctl, calls,
                   hist>>
    /\ UNCHANGED aux

\* The steps of the callback of worker w, block by block.
LockedCallbackStep(w) ==
    \/ AudioCallbackEnter(w) \/ CallbackAcquire(w) \/ LockedSeekCheck(w)
    \/ CallbackRender(w) \/ LockedWritePosition(w) \/ CallbackAppend(w)
    \/ LockedCopyPosition(w) \/ CallbackNotify(w)
    \/ LockedUserGetPlaybackState(w) \/ CallbackReturn(w)

\* The steps of the control calls, block by block.
LockedControlStep ==
    \/ LoadBegin \/ LoadDecode \/ LoadDecodeFails \/ LoadResetPosition
    \/ LoadSetDuration \/ LockedLoadResetSeek \/ LoadReturn
    \/ EnsureStoppedSetEvent \/ EnsureStoppedJoin
    \/ StopClearFlags \/ StopResetPosition \/ StopSetEvent \/ StopJoin
    \/ SeekEnter \/ LockedSeek
    \/ GetCurrentPositionEnter \/ LockedGetCurrentPosition
    \/ GetPlaybackStateEnter \/ LockedGetPlaybackState
    \/ ControlAcquire

\* The short track is playing from the start; the user seeks to its middle,
\* reads the state, stops or loads the track again.
InitLock ==
    /\ Started
    /\ audio_data = 1
    /\ env = [tracks |-> {audio_data}, tags |-> {FullTag}, seeks |-> {1},
              mags |-> {Silence}, raises |-> {FALSE}]

NextLock ==
    \/ Tick
    \/ LockedControlStep
    \/ \E w \in Workers : WorkerStep(w)
    \/ \E w \in Workers : LockedCallbackStep(w)

\* The engine with every acquisition of position_lock as a step of its own,
\* in the runs in which no join times out.
SpecLock == InitLock /\ [][NextLock]_vars

\* A thread that stays able to take the lock takes it, and a thread that
\* holds the lock runs on to the end of its `with` block: the threads are
\* scheduled by the operating system, and none of them is starved.
FairLock ==
    /\ WF_vars(ControlAcquire \/ LockedSeek \/ LockedGetCurrentPosition
               \/ LockedGetPlaybackState \/ LockedLoadResetSeek)
    /\ \A w \in Workers :
          WF_vars(CallbackAcquire(w) \/ LockedSeekCheck(w)
                  \/ LockedWritePosition(w) \/ LockedCopyPosition(w)
                  \/ LockedUserGetPlaybackState(w))

SpecLockFair == SpecLock /\ FairLock

NextSeek ==
    \/ Seek
    \/ \E w \in Workers : WorkerStep(w)
    \/ \E w \in Workers : CallbackStep(w)

\* One playback of a track and the seek() calls made during it.
SpecSeek == InitSeek /\ [][NextSeek]_vars

(***************************************************************************)
(* Properties.                                                             *)
(***************************************************************************)

\* The callback of worker w adopts a pending seek request in this step.
Adopts(w) ==
    /\ workers[w].cb = "idle"
    /\ workers'[w].cb = "write"
    /\ seek_requested

\* No control call has begun since the last one returned, and it was op.
Returned(op) == ctl.pc = "idle" /\ ctl.op = op

\* The callback of worker w stores the position of the chunk it rendered.
WritesPosition(w) == workers[w].cb = "write" /\ workers'[w].cb = "tail"

\* seek() is called in this step.
Seeks == ctl'.op = "seek" /\ calls' = calls + 1

\* C1: whenever no control call is in progress, is_playing and is_paused are
\* not both true: the engine is Stopped, Playing or Paused.
C1_StateExclusive == ctl.pc = "idle" => ~(is_playing /\ is_paused)

\* pause() has returned with the engine Paused while a callback of the
\* loop it paused is in progress.
C1_Witness ==
    /\ Returned("pause")
    /\ is_paused /\ ~is_playing
    /\ \E w \in Workers : StreamOpen(w) /\ workers[w].cb # "idle"

\* C2: at most one playback loop (a worker thread whose output stream is
\* open) exists at any time.
C2_SingleLoop == Cardinality({w \in Workers : StreamOpen(w)}) <= 1

\* C3: while load_track() holds a replaced buffer (from the store to
\* audio_data until it returns), no output stream is open.
C3_LoadExclusive ==
    ctl.pc \in {"ld_pos", "ld_dur", "ld_seek"} =>
        \A w \in Workers : ~StreamOpen(w)

\* C4: from the return of stop() until the next control call, the engine is
\* Stopped and current_position is 0.
C4_StopResetsPosition ==
    Returned("stop") => ~is_playing /\ ~is_paused /\ current_position = 0

\* C5: from the return of a pause() made while Playing until the next
\* control call, current_position does not change.
C5_PauseFreezes ==
    [][(Returned("pause") /\ calls' = calls) =>
           current_position' = current_position]_vars

\* C6: the loop started by a play() made while Paused, with no seek request
\* pending, takes as its cursor the sample index of the position held when
\* play() was called (or of the position held when the loop starts).
C6_ResumeKeepsPosition ==
    [][\A w \in Workers :
          (/\ workers[w].pc = "start"
           /\ workers'[w].pc = "open"
           /\ w = play_thread
           /\ Returned("play")
           /\ ctl.origin = "paused"
           /\ ~seek_requested)
          => workers'[w].start_idx \in {ctl.held, current_position}]_vars

\* C7: the first chunk rendered by the loop of a play() made while Stopped
\* begins at sample index 0.
C7_FreshStart ==
    \A w \in Workers :
        (/\ w = play_thread
         /\ Returned("play")
         /\ ctl.origin = "stopped"
         /\ workers[w].first
         /\ workers[w].cb = "write")
        => workers[w].start_idx = 0

\* C8: when the loop of a play() that no control call followed has ended
\* (its stream had opened, its finally block has run), the cursor is at the
\* end of the buffer, the engine is Stopped and position equals duration.
C8_NaturalCompletion ==
    \A w \in Workers :
        (/\ w = play_thread
         /\ Returned("play")
         /\ workers[w].pc = "clear"
         /\ workers[w].total_samples > 0)
        => /\ workers[w].start_idx >= workers[w].total_samples
           /\ ~is_playing /\ ~is_paused
           /\ current_position = duration

\* C9: a seek request raised while a loop was playing is adopted by the
\* callback of that loop: no other callback consumes it while that loop's
\* stream is open with its cursor elsewhere than the requested index.
C9_SeekNotLost ==
    [][\A w \in Workers :
          Adopts(w) =>
              \/ hist.seek_for \in {0, w}
              \/ ~StreamOpen(hist.seek_for)
              \/ workers[hist.seek_for].start_idx = ToIndex(seek_position)
          ]_vars

\* C10: a callback that adopts a seek request adopts the target of the most
\* recent seek() call, as position and (converted to a sample index) as
\* cursor, and leaves no request pending.
C10_SeekLastWriteWins ==
    [][\A w \in Workers :
          Adopts(w) =>
              /\ workers'[w].start_idx = ToIndex(hist.last_target)
              /\ current_position' = hist.last_target
              /\ ~seek_requested']_vars

\* A callback has adopted a request that had replaced a pending request for
\* a different target.
C10_Witness ==
    /\ hist.lww = "adopted"
    /\ ~seek_requested
    /\ \E w \in Workers :
          /\ workers[w].cb = "write"
          /\ workers[w].start_idx = ToIndex(hist.last_target)

\* C11 (as stated): seek() with a fraction outside [0, 1] leaves position in
\* [0, duration]; the chunk render that follows seek(-0.5) leaves position
\* at 0, the one that follows seek(1.5) leaves it at duration.
C11_SeekClamping ==
    [][/\ (Seeks /\ hist'.last_h \notin {0, 1, 2}) =>
              (current_position' >= 0 /\ current_position' <= duration)
       /\ \A w \in Workers :
              /\ (WritesPosition(w) /\ workers[w].sought = -1) =>
                     current_position' = 0
              /\ (WritesPosition(w) /\ workers[w].sought = 3) =>
                     current_position' = duration]_vars

\* C11 (amended): seek() with a fraction outside [0, 1] leaves position in
\* [0, duration]: seek(-0.5) leaves it at 0 and seek(1.5) at duration; the
\* chunk render that follows seek(-0.5) leaves position at the end of the
\* first chunk, min(frames, sample count) / sample_rate, the one that
\* follows seek(1.5) leaves it at duration (no other control call being made
\* between the seek and the render).
C11_SeekClampingAmended ==
    [][/\ (Seeks /\ hist'.last_h < 0) => current_position' = 0
       /\ (Seeks /\ hist'.last_h > 2) => current_position' = duration
       /\ \A w \in Workers :
              (WritesPosition(w) /\ Returned("seek")) =>
                  /\ workers[w].sought = -1 =>
                         current_position' =
                             Min(duration, Min(Frames, NumSamples(audio_data)))
                  /\ workers[w].sought = 3 =>
                         current_position' = duration]_vars

\* The chunk that follows seek(-0.5) has been rendered: position is one
\* chunk past 0.
C11_Witness ==
    \E w \in Workers :
        /\ workers[w].cb = "tail"
        /\ workers[w].sought = -1
        /\ current_position = Frames

\* C12: the chunk render that follows seek(f), 0 <= f <= 1, on a playing
\* track leaves position at min(duration, (target sample + frames) /
\* sample_rate), which is within one chunk duration of f * duration.
C12_SeekAccuracy ==
    [][\A w \in Workers :
          (/\ WritesPosition(w)
           /\ workers[w].sought \in {1, 2}
           /\ is_playing)
          => /\ current_position' =
                    Min(duration,
                        TargetSample(workers[w].sought, duration) + Frames)
             /\ 2 * current_position' - workers[w].sought * duration
                    <= 2 * Frames
             /\ workers[w].sought * duration - 2 * current_position'
                    <= 2 * Frames]_vars

\* C13: in every state, 0 <= current_position <= duration.
C13_PositionInRange == current_position >= 0 /\ current_position <= duration

\* C14: while no control call is made, current_position never decreases,
\* and a callback moves the cursor forward by the number of samples it
\* took from the buffer.
C14_PositionMonotonic ==
    [][(ctl.pc = "idle" /\ ctl' = ctl /\ calls' = calls) =>
           /\ current_position' >= current_position
           /\ \A w \in Workers :
                  (workers[w].cb = "tail" /\ workers'[w].cb = "idle") =>
                      workers'[w].start_idx >= workers[w].start_idx]_vars

\* C15: when load_track() returns False, the track held, its duration, path
\* and metadata, the position and the Stopped/Playing/Paused state are what
\* they were when it was called.
C15_FailedLoadChangesNothing ==
    [][(ctl.op = "load" /\ ctl'.op = "load_failed") =>
           Observable' = ctl.before]_vars

\* C16: when load_track() has returned True, the engine is Stopped, position
\* is 0, no seek request is pending and duration is that of the new buffer.
C16_LoadResets ==
    Returned("load") =>
        /\ ~is_playing /\ ~is_paused
        /\ current_position = 0
        /\ ~seek_requested /\ seek_position = 0
        /\ duration = NumSamples(audio_data)

\* C17: when decoding has produced samples, load_track() returns True
\* whatever the tag library does; title, artist, album and album_artist are
\* then present, "Unknown" for every tag that could not be read, and
\* metadata["duration"] is the engine's duration.
C17_MetadataBestEffort ==
    [][(ctl.pc = "ld_seek" /\ ctl'.pc = "idle" /\ NumSamples(audio_data) > 0)
       => /\ ctl'.op = "load"
          /\ \A f \in Fields :
                 /\ metadata'[f] # "absent"
                 /\ f \notin ctl'.tag.fields => metadata'[f] = "Unknown"
          /\ metadata'.duration = duration']_vars

\* load_track() has returned True for a file on which the tag library
\* raised: every tag is "Unknown".
C17_Witness ==
    /\ Returned("load")
    /\ ctl.tag.kind = "raises"
    /\ \A f \in Fields : metadata[f] = "Unknown"
    /\ metadata.duration = duration
    /\ duration > 0

\* C18: when load_track() has returned True for a file without readable
\* bitrate information (the tag library returned None, raised, or gave no
\* usable info), bitrate is 0 and is_vbr is false.
C18_BitrateDefaults ==
    (/\ Returned("load")
     /\ \/ ctl.tag.kind \in {"raises", "none"}
        \/ ctl.tag.info \in {"noinfo", "badbitrate"})
    => bitrate = 0 /\ ~is_vbr

\* C19: the visualization queue never holds as many frames as have been
\* produced in a run of MaxVisFrames frames (its capacity is smaller: the
\* oldest frame is dropped to admit a new one), and the newest frame
\* produced is the last one in the queue unless the UI has taken it.
C19_QueueBounded ==
    /\ Len(vis_data_queue) < MaxVisFrames
    /\ vis_data_queue # <<>> =>
           vis_data_queue[Len(vis_data_queue)].seq = vis_worker.produced

\* C20: audio_buffer never holds more than its capacity; a callback leaves
\* in it, in order, the most recent samples appended (what it held followed
\* by the callback's mono chunk, cut to the capacity from the front); no
\* step of the visualization thread changes it.
C20_RingBuffer ==
    [][/\ Len(audio_buffer') <= BufferMaxLen
       /\ \A w \in Workers :
              (workers[w].cb = "tail" /\ workers'[w].cb = "idle") =>
                  LET all == audio_buffer \o Chunk(workers[w].start_idx,
                                                   workers[w].end_idx)
                      n == Min(BufferMaxLen, Len(all))
                  IN  audio_buffer' = SubSeq(all, Len(all) - n + 1, Len(all))
       /\ vis_worker' # vis_worker => audio_buffer' = audio_buffer]_vars

\* The visualization thread holds a copy of the buffer taken before the
\* callback appended the chunk the full buffer now ends with.
C20_Witness ==
    /\ vis_worker.pc = "process"
    /\ Len(vis_worker.samples) = BufferMaxLen
    /\ Len(audio_buffer) = BufferMaxLen
    /\ audio_buffer # vis_worker.samples

\* The visualization thread samples the buffer: the test of a cycle passes.
VisSamples == vis_worker.pc = "poll" /\ vis_worker'.pc = "process"

\* C21: a cycle of the visualization thread samples the buffer only if, at
\* its test, the engine is Playing, a track is loaded and the ring buffer
\* is not empty; a frame is enqueued only by a cycle that sampled the
\* buffer; a cycle whose test fails leaves vis_data_queue unchanged.
C21_NoFrameWhenIdle ==
    [][/\ VisSamples =>
              (/\ is_playing /\ ~is_paused /\ audio_data # 0
               /\ Len(audio_buffer) > 0)
       /\ Len(vis_data_queue') > Len(vis_data_queue) =>
              vis_worker.pc = "process" /\ vis_worker.samples # <<>>
       /\ (vis_worker.pc = "poll" /\ vis_worker'.pc = "sleep") =>
              vis_data_queue' = vis_data_queue]_vars

\* The thread sleeps after a cycle run while the engine was Paused with
\* samples in the buffer: it has produced nothing.
C21_Witness ==
    /\ vis_worker.pc = "sleep"
    /\ vis_worker.produced = 0
    /\ is_paused /\ ~is_playing
    /\ Len(audio_buffer) > 0
    /\ vis_data_queue = <<>>

\* C22: every frame produced in SPECTRUM mode is a sequence of exactly 19
\* values, each within [0, 1], whatever the number of samples in the ring
\* buffer; when there are fewer than the least number transformed, the
\* frame is 19 zeros.
C22_SpectrumShape ==
    \A i \in 1 .. Len(vis_data_queue) :
        LET frame == vis_data_queue[i]
        IN  frame.kind = "SPECTRUM" =>
                /\ Len(frame.data) = 19
                /\ \A j \in 1 .. Len(frame.data) :
                       frame.data[j] >= 0 /\ frame.data[j] <= One
                /\ Len(frame.samples) < MinFftSamples =>
                       \A j \in 1 .. Len(frame.data) : frame.data[j] = 0

\* A frame computed from a full buffer holds a band at 1.0 (its magnitude
\* is above full scale) and a band strictly between 0 and 1.
C22_Witness ==
    \E i \in 1 .. Len(vis_data_queue) :
        LET frame == vis_data_queue[i]
        IN  /\ frame.kind = "SPECTRUM"
            /\ Len(frame.samples) = BufferMaxLen
            /\ \E j \in 1 .. Len(frame.data) : frame.data[j] = One
            /\ \E j \in 1 .. Len(frame.data) :
                   frame.data[j] > 0 /\ frame.data[j] < One

\* set_visualization_mode() is called in this step.
SetsVisMode == ctl'.op = "vis_mode" /\ calls' = calls + 1

\* C23: from the return of set_visualization_mode("OFF") until the next
\* call of set_visualization_mode, no frame is enqueued; a call with
\* SPECTRUM or OSCILLOSCOPE leaves a visualization thread alive that has
\* not been told to stop.
C23_OffModeSilent ==
    [][/\ (vis_mode = "OFF" /\ ctl.pc # "vm_join" /\ ~SetsVisMode) =>
              Len(vis_data_queue') <= Len(vis_data_queue)
       /\ (SetsVisMode /\ vis_mode' \in {"SPECTRUM", "OSCILLOSCOPE"}) =>
              (vis_worker'.pc # "done" /\ ~vis_stop_event')]_vars


\* A step in which set_volume() is called.
SetsVolume == ctl'.op = "set_volume" /\ calls' = calls + 1

\* A step in which set_balance() is called.
SetsBalance == ctl'.op = "set_balance" /\ calls' = calls + 1

\* C24: volume is within [0.0, 1.0] and balance within [-1.0, 1.0] in every
\* state; set_volume(v) stores v clamped to [0.0, 1.0] and set_balance(b)
\* stores b clamped to [-1.0, 1.0]; each setter changes no other field, and
\* a setter called again with the same argument changes nothing.
C24_VolumeBalanceClamped ==
    /\ volume \in 0 .. One
    /\ balance \in -One .. One
    /\ [][/\ volume' \in 0 .. One
          /\ balance' \in -One .. One
          /\ SetsVolume =>
                /\ volume' = IF ctl'.arg < 0 THEN 0
                             ELSE IF ctl'.arg > One THEN One ELSE ctl'.arg
                /\ UNCHANGED <<engine, workers, hist, env, track_info,
                               audio_buffer, vis_state, balance, is_eq_on,
                               eq_bands, playback_state>>
                /\ (ctl.op = "set_volume" /\ ctl.arg = ctl'.arg) =>
                       volume' = volume
          /\ SetsBalance =>
                /\ balance' = IF ctl'.arg < -One THEN -One
                              ELSE IF ctl'.arg > One THEN One ELSE ctl'.arg
                /\ UNCHANGED <<engine, workers, hist, env, track_info,
                               audio_buffer, vis_state, volume, is_eq_on,
                               eq_bands, playback_state>>
                /\ (ctl.op = "set_balance" /\ ctl.arg = ctl'.arg) =>
                       balance' = balance]_vars

\* set_balance() was given a value below -1.0, then set_volume() a value
\* above 1.0.
C24_Witness ==
    /\ ctl.op = "set_volume"
    /\ ctl.arg > One
    /\ volume = One
    /\ balance = -One

\* A step in which set_eq() is called.
SetsEq == ctl'.op = "set_eq" /\ calls' = calls + 1

\* C25: after set_eq(bands) eq_bands has exactly the 11 keys of the
\* equalizer, each with the gain bands gives it, or 0.0 when bands does not
\* give one, whatever eq_bands held before; keys of bands that are not
\* among the 11 are dropped, bands is as it was passed, nothing else
\* changes, and the same call made again changes nothing.
C25_SetEqReplaces ==
    [][SetsEq =>
          /\ DOMAIN eq_bands' = EqKeys
          /\ Cardinality(DOMAIN eq_bands') = 11
          /\ \A k \in EqKeys :
                eq_bands'[k] = IF k \in DOMAIN ctl'.arg THEN ctl'.arg[k]
                               ELSE 0
          /\ ctl'.arg \in EqInputs
          /\ UNCHANGED <<engine, workers, hist, env, track_info,
                         audio_buffer, vis_state, volume, balance, is_eq_on,
                         playback_state>>
          /\ (ctl.op = "set_eq" /\ ctl.arg = ctl'.arg) =>
                 eq_bands' = eq_bands]_vars

\* set_eq() was given 6 dB for a band and for a key that is not a band.
C25_Witness ==
    /\ ctl.op = "set_eq"
    /\ DOMAIN ctl.arg = {"60hz", "32hz"}
    /\ ctl.arg["32hz"] = 6
    /\ eq_bands["60hz"] = 6
    /\ eq_bands["preamp"] = 0
    /\ calls = 4

\* The callback of worker w renders a chunk in this step.
Renders(w) == workers[w].cb = "idle" /\ workers'[w].cb = "write"

\* A step in which toggle_eq() is called.
TogglesEq == ctl'.op = "toggle_eq" /\ calls' = calls + 1

\* C26: while is_eq_on is false every chunk rendered is the slice scaled by
\* the volume and the balance, whatever the gains of eq_bands; toggle_eq()
\* changes is_eq_on and nothing else.
C26_EqBypass ==
    [][/\ \A w \in Workers :
             (Renders(w) /\ ~is_eq_on) =>
                /\ workers'[w].chunk.dtype = "float32"
                /\ workers'[w].chunk.filters = {}
                /\ workers'[w].chunk.gain =
                       IF Channels(audio_data) = 2
                       THEN <<volume * Min(One, One - balance),
                              volume * Min(One, One + balance)>>
                       ELSE <<volume>>
       /\ TogglesEq =>
             /\ is_eq_on' = ctl'.arg
             /\ UNCHANGED <<engine, workers, hist, env, track_info,
                            audio_buffer, vis_state, volume, balance,
                            eq_bands, playback_state>>]_vars

\* A chunk was rendered with the equalizer off while a band was at 6 dB.
C26_Witness ==
    \E w \in Workers :
        /\ workers[w].cb = "write"
        /\ workers[w].chunk = ScaledChunk
        /\ ~is_eq_on
        /\ eq_bands # NoBands
        /\ eq_bands["60hz"] = 6

\* C27: with the equalizer on, a chunk, mono or stereo, comes out of
\* _apply_eq_to_chunk as it went in when all 11 gains are 0 dB and when
\* eq_bands is the empty map of a new engine.
C27_EqIdentity ==
    [][\A w \in Workers :
          (/\ Renders(w)
           /\ is_eq_on
           /\ \/ eq_bands = NoBands
              \/ DOMAIN eq_bands = EqKeys /\ \A k \in EqKeys : eq_bands[k] = 0)
          => workers'[w].chunk = ScaledChunk]_vars

\* A stereo chunk was rendered with the equalizer on and all 11 gains at
\* 0 dB.
C27_Witness ==
    \E w \in Workers :
        /\ workers[w].cb = "write"
        /\ is_eq_on
        /\ DOMAIN eq_bands = EqKeys
        /\ \A k \in EqKeys : eq_bands[k] = 0
        /\ Len(workers[w].chunk.gain) = 2
        /\ workers[w].chunk = ScaledChunk


\* A step in which get_playback_state() is called.
GetsState == ctl'.op = "get_playback_state" /\ calls' = calls + 1

\* C29: get_playback_state() changes nothing in the engine and returns a
\* record of is_playing, is_paused, position, duration and volume as they
\* are at the call; no later step of the engine changes a record already
\* returned, and a caller writing to its record changes nothing in the
\* engine.
C29_StateSnapshot ==
    [][/\ GetsState =>
             /\ playback_state' =
                    [is_playing |-> is_playing, is_paused |-> is_paused,
                     position |-> current_position, duration |-> duration,
                     volume |-> volume]
             /\ UNCHANGED <<engine, workers, hist, env, track_info,
                            audio_buffer, vis_state, mix>>
       /\ ~GetsState =>
             \/ playback_state' = playback_state
             \/ UNCHANGED <<engine, ctl, calls, workers, hist, env,
                            track_info, audio_buffer, vis_state, mix>>]_vars

\* A record returned while the track was playing at full volume is still
\* the same after the volume was set to 0.0 and the playback ended.
C29_Witness ==
    /\ playback_state.is_playing
    /\ playback_state.volume = One
    /\ playback_state.position < current_position
    /\ ~is_playing
    /\ volume = 0


\* The play() that started thread w is the last call made to the engine,
\* and it has returned.
LastCallStarted(w) ==
    /\ ctl.op = "play"
    /\ ctl.pc = "idle"
    /\ play_thread = w
    /\ audio_data # 0

\* C28: when the output stream cannot be opened or raises while open, the
\* worker leaves its loop for the finally block and does not enter it
\* again, the failure changes nothing of the call in progress or of the
\* engine's fields, and, the play() that started the worker being the last
\* call made, the worker returns with is_playing false, is_paused false and
\* the stop signal cleared.
C28_DeviceFailureStops ==
    [][\A w \in Workers :
          /\ (workers'[w].error /\ ~workers[w].error) =>
                /\ workers'[w].pc = "fin"
                /\ UNCHANGED <<engine, ctl, calls>>
          /\ workers[w].error => workers'[w].pc \in {"fin", "clear", "done"}
          /\ (/\ workers[w].error
              /\ workers'[w].pc = "done"
              /\ LastCallStarted(w))
             => (~is_playing' /\ ~is_paused' /\ ~stop_event')]_vars

\* The stream of the worker that play() started raised after the first
\* chunk; the finally block has cleared is_playing.
C28_Witness ==
    \E w \in Workers :
        /\ workers[w].error
        /\ workers[w].pc = "clear"
        /\ workers[w].start_idx > 0
        /\ LastCallStarted(w)
        /\ ~is_playing
        /\ ~is_paused


\* A step in which play() or seek() is called.
PlaysOrSeeks ==
    /\ calls' = calls + 1
    /\ ctl'.op \in {"play", "play_noop", "seek", "seek_noop"}

\* C30: as long as no track has been loaded (audio_data is None) nothing is
\* playing or paused, the position is 0, no seek is pending and no worker
\* thread exists; a call of play() or seek() made then returns at once and
\* changes no field of the engine and no thread.
C30_NoTrackGuard ==
    /\ [](audio_data = 0 =>
             /\ ~is_playing
             /\ ~is_paused
             /\ current_position = 0
             /\ ~seek_requested
             /\ play_thread = 0
             /\ \A w \in Workers : ~Alive(w))
    /\ [][(audio_data = 0 /\ PlaysOrSeeks) =>
             /\ ctl'.pc = "idle"
             /\ UNCHANGED <<engine, workers, track_info, audio_buffer,
                            vis_state, mix>>]_vars

\* play() was called on an engine without a track, after stop() had set
\* the stop signal.
C30_Witness ==
    /\ audio_data = 0
    /\ ctl.op = "play_noop"
    /\ ctl.pc = "idle"
    /\ stop_event
    /\ play_thread = 0
    /\ ~is_playing


\* stop() returns in this step.
StopReturns == ctl.pc = "st_join" /\ ctl'.pc = "idle"

\* _ensure_stopped(), called by play() or load_track(), returns in this
\* step.
EnsureStoppedReturns ==
    /\ ctl'.pc \in {"ld_load", "p_reset"}
    /\ ctl.pc \in {"idle", "es_check", "es_join"}

\* C33: when stop() or _ensure_stopped() returns, its join not having timed
\* out, no playback worker thread is alive (so no audio callback can run).
C33_StopJoinsLoop ==
    [][(StopReturns \/ EnsureStoppedReturns) =>
          \A w \in Workers : ~Alive(w)']_vars


\* play() executes its conditional reset of the position in this step.
PlayDecidesReset == ctl.pc = "p_reset" /\ ctl'.pc = "p_playing"

\* C34: play() sets the position to 0 only when the engine was neither
\* playing nor paused when play() was called; called while Playing it
\* leaves the position as it is.
C34_PlayWhilePlaying ==
    [][(PlayDecidesReset /\ ctl.origin # "stopped") =>
          current_position' = current_position]_vars


\* A step in which pause() is called.
Pauses == calls' = calls + 1 /\ ctl'.op \in {"pause", "pause_noop"}

\* C35: pause() called while the engine is Stopped or Paused returns at
\* once and leaves is_playing, is_paused, the position, the seek request
\* and the worker threads as they are; a Stopped engine is not made Paused.
C35_PauseNoOp ==
    [][(Pauses /\ ~is_playing) =>
          /\ ctl'.pc = "idle"
          /\ UNCHANGED <<engine, workers>>
          /\ (EngineState = "stopped" => EngineState' = "stopped")]_vars

\* pause() was called on an engine that stop() had stopped with a seek
\* request pending, and returned.
C35_Witness ==
    /\ Returned("pause_noop")
    /\ ~is_playing
    /\ ~is_paused
    /\ seek_requested
    /\ stop_event
    /\ audio_data # 0


\* C36: the slice a callback reads satisfies 0 <= start <= end <= length of
\* the buffer, also when it has just adopted a seek request.
C36_CursorBounds ==
    [][\A w \in Workers :
          Renders(w) =>
             /\ 0 <= workers'[w].start_idx
             /\ workers'[w].start_idx <= workers'[w].end_idx
             /\ workers'[w].end_idx <= NumSamples(audio_data)]_vars


\* Worker thread w, started by an earlier play() than the one that started
\* the current play_thread, or its callback, takes a step.
StaleWorkerStep(w) ==
    /\ Alive(w)
    /\ play_thread # w
    /\ workers'[w] # workers[w]

\* C37: no step of a worker thread of an earlier playback, its finally
\* block included, changes is_playing, is_paused or the stop signal.
C37_StaleWorkerHarmless ==
    [][\A w \in Workers :
          StaleWorkerStep(w) =>
             UNCHANGED <<is_playing, is_paused, stop_event>>]_vars


\* playback_callback is invoked in this step.
InvokesCallback == callback_log'.seq # callback_log.seq

\* C31: playback_callback is not invoked before callback_interval has
\* passed since its previous invocation, and the position it is given is
\* within [0, duration].
C31_ThrottledCallback ==
    [][InvokesCallback =>
          /\ \/ callback_log.time < 0
             \/ now - callback_log.time >= CallbackInterval
          /\ callback_log'.position >= 0
          /\ callback_log'.position <= callback_log'.duration]_vars


\* check_track_completion() is called in this step.
ChecksCompletion ==
    calls' = calls + 1 /\ ctl'.op = "check_track_completion"

\* C39: once the user's stop() has returned, and until another call is
\* made, check_track_completion() does not go on to play another track.
C39_NoAdvanceAfterStop ==
    [][(ChecksCompletion /\ ctl.op = "stop" /\ ctl.by = "user") =>
          ctl'.pc # "tc_next"]_vars


\* The control thread executes, in this step, a statement that reads or
\* writes current_position, seek_requested or seek_position: the reset of
\* the position in load_track() and stop(), or the body of a `with` block.
ControlAccessesPosition ==
    /\ ctl' # ctl
    /\ ctl.pc \in {"ld_pos", "st_pos"} \cup ControlLocked

\* The callback of worker w executes, in this step, the body of one of the
\* `with` blocks, which read or write the three fields.
CallbackAccessesPosition(w) ==
    /\ workers'[w] # workers[w]
    /\ workers[w].cb \in CallbackLocked

\* C32: every read and write of current_position, seek_requested and
\* seek_position, by a control call or by the audio callback, is made by a
\* thread that holds position_lock.
C32_LockDiscipline ==
    [][/\ ControlAccessesPosition => position_lock = ControlThread
       /\ \A w \in Workers :
             CallbackAccessesPosition(w) => position_lock = w]_vars

\* The thread that holds position_lock is inside a `with` block of the
\* lock: it is not joining a thread, not waiting for the lock a second
\* time, and not inside playback_callback.
HeldInsideBlock ==
    /\ position_lock \in {Nobody, ControlThread} \cup Workers
    /\ position_lock = ControlThread => ctl.pc \in ControlLocked
    /\ \A w \in Workers :
          position_lock = w => workers[w].cb \in CallbackLocked

\* A thread that waits for position_lock comes to hold it.
WaitingAcquires ==
    /\ (ctl.pc \in ControlWaits) ~> (position_lock = ControlThread)
    /\ \A w \in Workers :
          (workers[w].cb \in CallbackWaits) ~> (position_lock = w)

\* C38: position_lock is held only inside its `with` blocks, never across a
\* join, a second acquisition or the invocation of playback_callback, and
\* every control call and every callback that requests the lock, a
\* get_playback_state() made from inside playback_callback included,
\* eventually acquires it.
C38_DeadlockFree == []HeldInsideBlock /\ WaitingAcquires

\* C38 witness: playback_callback has called get_playback_state() and waits
\* for the lock while a get_playback_state() of the control thread holds it.
C38_Witness ==
    /\ ctl.pc = "gs_locked"
    /\ position_lock = ControlThread
    /\ \E w \in Workers : workers[w].cb = "user_wait"

====
